---- MODULE Spec2Model ----
(***************************************************************************)
(* Model of wander-weather.                                                *)
(*                                                                         *)
(* Part 1: the suggestion endpoint, src/app/api/suggestion/route.ts:       *)
(* POST validates the request, calls the primary model through             *)
(* retryWithBackoff, falls back to a second model once, extracts the text  *)
(* of the response and answers 200 / 400 / 500 / 503.                      *)
(*                                                                         *)
(* JavaScript strings whose characters matter (texts that are trimmed and  *)
(* joined) are sequences of one-character strings.  A JavaScript value     *)
(* that may be undefined is a record with a type tag.                      *)
(***************************************************************************)
EXTENDS Integers, Sequences, FiniteSets, TLC

VARIABLES
    apiKeySet,      \* process.env.GEMINI_API_KEY is set
    nodeEnv,        \* process.env.NODE_ENV
    pc,             \* position of the POST handler
    request,        \* the request body received
    attempt,        \* retryWithBackoff: let attempt
    primaryCalls,   \* calls of fn() made by retryWithBackoff
    fallbackCalls,  \* calls of generateContent with modelFallback
    waits,          \* the arguments of sleep(), in order
    lastErr,        \* retryWithBackoff: the err most recently caught
    caught,         \* history: per error caught, whether its status is a listed transient one
    errPrimary,     \* the error retryWithBackoff threw (catch (errPrimary))
    errFallback,    \* the error the fallback call threw (catch (errFallback))
    response,       \* let response
    httpStatus,     \* status of the NextResponse returned (0: none yet)
    body,           \* body of the NextResponse returned
    \* the weather route, src/app/api/weather/route.ts
    provider,       \* which of the two GET variants is deployed
    owmKeySet,      \* process.env.OWM_API_KEY is set
    wpc,            \* position of the GET handler
    qParam,         \* const q = searchParams.get('q')
    calls,          \* the outbound fetches started, in order
    geoRes,         \* the geocoding response received
    wxRes,          \* the weather responses received
    wStatus,        \* status of the NextResponse returned (0: none yet)
    wBody,          \* body of the NextResponse returned
    \* the page, src/app/page.tsx
    ppc,            \* position of the render
    suggestionRaw,  \* the suggestion text the page holds
    parsed,         \* const parsed = extractSections(sanitizeSuggestion(suggestionRaw))
    query,          \* the text of the search input
    payload,        \* the weather payload the page holds
    loading,        \* a weather lookup is under way
    error,          \* the search error shown ("" for null)
    suggestionLoading,   \* a suggestion request is under way
    suggestionError,     \* the suggestion error shown ("" for null)
    weatherRequests,     \* the searches whose weather fetch is in flight
    suggestionRequests,  \* the searches whose suggestion fetch is in flight
    searchLog,      \* history: per search, its query, outcome and suggestion posts
    lastStep        \* history: the handler step taken last

suggestionVars ==
    <<apiKeySet, nodeEnv, pc, request, attempt, primaryCalls, fallbackCalls,
      waits, lastErr, caught, errPrimary, errFallback, response, httpStatus,
      body>>

weatherVars == <<provider, owmKeySet, wpc, qParam, calls, geoRes, wxRes, wStatus, wBody>>

searchVars ==
    <<query, payload, loading, error, suggestionLoading, suggestionError,
      weatherRequests, suggestionRequests, searchLog, lastStep>>

pageVars == <<ppc, suggestionRaw, parsed, searchVars>>

vars == <<suggestionVars, weatherVars, pageVars>>

\* ------------------------------------------------------------------ bounds

\* Number of values of Math.random() explored for each backoff sleep.
MaxJitterSamples == 3

\* ------------------------------------------------------- JavaScript values

Undefined == [t |-> "undefined", n |-> 0, s |-> ""]
Num(n) == [t |-> "number", n |-> n, s |-> ""]
Str(s) == [t |-> "string", n |-> 0, s |-> s]

\* a ?? b
Nullish(a, b) == IF a.t = "undefined" THEN b ELSE a

\* A text (sequence of characters) that may be undefined.
NoText == [defined |-> FALSE, str |-> <<>>]
Text(s) == [defined |-> TRUE, str |-> s]

Whitespace == {" ", "\n", "\t", "\r"}

RECURSIVE TrimStart(_)
TrimStart(s) ==
    IF s # <<>> /\ Head(s) \in Whitespace THEN TrimStart(Tail(s)) ELSE s

RECURSIVE TrimEnd(_)
TrimEnd(s) ==
    IF s # <<>> /\ s[Len(s)] \in Whitespace
    THEN TrimEnd(SubSeq(s, 1, Len(s) - 1))
    ELSE s

\* String.prototype.trim
Trim(s) == TrimEnd(TrimStart(s))

\* Array.prototype.join('\n') of an array of strings
RECURSIVE JoinLines(_)
JoinLines(parts) ==
    IF parts = <<>> THEN <<>>
    ELSE IF Len(parts) = 1 THEN parts[1]
    ELSE parts[1] \o <<"\n">> \o JoinLines(Tail(parts))

Min(a, b) == IF a <= b THEN a ELSE b
Max(a, b) == IF a >= b THEN a ELSE b

\* ------------------------------------------------------------- the errors

\* An error thrown by ai.models.generateContent: the five places where
\* retryWithBackoff looks for a status, and the message.
Err(msg, errorCode, status, statusCode, code, statusText) ==
    [message |-> msg, error_code |-> errorCode, status |-> status,
     statusCode |-> statusCode, code |-> code, status_text |-> statusText]

NoError == Err("", Undefined, Undefined, Undefined, Undefined, Undefined)

\* The errors the generation service may answer with.
Errors ==
    { Err("quota", Num(429), Undefined, Undefined, Undefined, Undefined),
      Err("overloaded", Undefined, Num(503), Undefined, Undefined, Undefined),
      Err("too many", Undefined, Undefined, Str("TOO_MANY_REQUESTS"), Undefined, Undefined),
      Err("unavailable", Undefined, Undefined, Undefined, Str("UNAVAILABLE"), Undefined),
      Err("rate limit", Undefined, Undefined, Undefined, Undefined, Str("RATE_LIMIT_EXCEEDED")),
      Err("internal", Undefined, Num(500), Undefined, Undefined, Undefined),
      Err("string status", Undefined, Str("429"), Undefined, Undefined, Undefined),
      Err("bad request", Num(400), Num(429), Undefined, Undefined, Undefined),
      Err("network", Undefined, Undefined, Undefined, Undefined, Undefined) }

\* ------------------------------------------------------- retryWithBackoff

attempts == 5
baseDelayMs == 600
maxDelayMs == 8000

\* const status = err?.error?.code ?? err?.status ?? err?.statusCode ?? err?.code ?? err?.status_text
StatusOf(err) ==
    Nullish(err.error_code,
        Nullish(err.status,
            Nullish(err.statusCode,
                Nullish(err.code, err.status_text))))

transientStatuses ==
    {Num(429), Num(503), Str("UNAVAILABLE"), Str("RATE_LIMIT_EXCEEDED"),
     Str("TOO_MANY_REQUESTS")}

\* Mutant: the string statuses are forgotten.
IsTransientNumbersOnly(status) ==
    status.t = "number" /\ (status.n = 429 \/ status.n = 503)

\* Mutant: loose equality (==), under which the string '429' equals 429.
IsTransientLoose(status) ==
    \/ status.t = "number" /\ (status.n = 429 \/ status.n = 503)
    \/ status.t = "string" /\ status \in transientStatuses \cup {Str("429"), Str("503")}

IsTransient(status) ==
    \/ status.t = "number" /\ (status.n = 429 \/ status.n = 503)
    \/ status.t = "string" /\ status \in transientStatuses

\* Mutant: the transient check is forgotten.
RethrowsWhenExhausted(isTransient, att) == att >= attempts

\* Mutant: attempt > attempts.
RethrowsOffByOne(isTransient, att) == ~isTransient \/ att > attempts

\* if (!isTransient || attempt >= attempts) throw err
Rethrows(isTransient, att) == ~isTransient \/ att >= attempts

\* Mutant: the exponent counts retries from 0.
ExpoFromZero(att) == Min(maxDelayMs, baseDelayMs * (2 ^ (att - 1)))

\* Math.min(maxDelayMs, baseDelayMs * Math.pow(2, attempt))
Expo(att) == Min(maxDelayMs, baseDelayMs * (2 ^ att))

\* Math.min(1000, Math.floor(expo / 2)): jitter is floor(random * this)
JitterRange(expo) == Min(1000, expo \div 2)

\* The values of Math.floor(Math.random() * range) explored: the smallest, the
\* largest (range - 1) and evenly spaced ones between.
Jitters(range) ==
    IF range <= 0 THEN {0}
    ELSE { (i * (range - 1)) \div (MaxJitterSamples - 1) : i \in 0..(MaxJitterSamples - 1) }

\* Math.max(100, expo - jitter)
Wait(expo, jitter) == Max(100, expo - jitter)

\* ------------------------------------------------------ the model response

\* One element of response.outputs: null, or an object with text and content.
NullPart == [isNull |-> TRUE, text |-> NoText, content |-> NoText]
Part(text, content) == [isNull |-> FALSE, text |-> text, content |-> content]

\* response.outputs: not an array (undefined), or an array of parts.
NoOutputs == [isArray |-> FALSE, parts |-> <<>>]
Outputs(parts) == [isArray |-> TRUE, parts |-> parts]

Resp(text, outputText, outputs) ==
    [isNull |-> FALSE, text |-> text, outputText |-> outputText, outputs |-> outputs]

\* let response: any = null
NullResponse == [isNull |-> TRUE, text |-> NoText, outputText |-> NoText, outputs |-> NoOutputs]

TextValues == {Text(<<>>), Text(<<" ">>), Text(<<" ", "a", "\n">>)}
OutputTextValues == {Text(<<"\n">>), Text(<<"b">>)}
OutputsValues ==
    { NoOutputs,
      Outputs(<<>>),
      Outputs(<<Part(Text(<<"c">>), NoText)>>),
      Outputs(<<Part(Text(<<>>), Text(<<"d", " ">>)), Part(Text(<<"c">>), NoText)>>),
      Outputs(<<Part(NoText, NoText), Part(NoText, Text(<<>>))>>),
      Outputs(<<Part(Text(<<"c">>), NoText), NullPart>>) }

\* The responses the generation service may resolve with: those with a text
\* field, those with only an outputText field, those with neither.
Responses ==
    {Resp(t, o, u) : t \in TextValues, o \in OutputTextValues \cup {NoText},
                     u \in {NoOutputs, Outputs(<<Part(Text(<<"c">>), NoText)>>)}}
    \cup {Resp(NoText, o, u) : o \in OutputTextValues,
                     u \in {NoOutputs, Outputs(<<Part(Text(<<"c">>), NoText)>>)}}
    \cup {Resp(NoText, NoText, u) : u \in OutputsValues}

\* o.text || o.content || ''
Falsy(v) == ~v.defined \/ v.str = <<>>
PartText(o) ==
    IF ~Falsy(o.text) THEN o.text.str
    ELSE IF ~Falsy(o.content) THEN o.content.str
    ELSE <<>>

\* response.outputs.map(...) throws a TypeError on a null element.
OutputsThrow(resp) ==
    \E i \in 1..Len(resp.outputs.parts) : resp.outputs.parts[i].isNull

\* Array.isArray(response?.outputs) && response.outputs.length ? ...join('\n') : ''
OutputsText(resp) ==
    IF resp.outputs.isArray /\ Len(resp.outputs.parts) > 0
    THEN JoinLines([i \in 1..Len(resp.outputs.parts) |-> PartText(resp.outputs.parts[i])])
    ELSE <<>>

\* Whether evaluating the extraction expression throws (caught: suggestionText = '').
ExtractThrows(resp) ==
    /\ ~resp.isNull
    /\ ~resp.text.defined
    /\ ~resp.outputText.defined
    /\ resp.outputs.isArray
    /\ OutputsThrow(resp)

\* response?.text ?? response?.outputText ?? (outputs ...) ?? ''
RawText(resp) ==
    IF resp.isNull THEN <<>>
    ELSE IF resp.text.defined THEN resp.text.str
    ELSE IF resp.outputText.defined THEN resp.outputText.str
    ELSE OutputsText(resp)

\* suggestionText after the try/catch: String(...).trim(), or '' when it threw.
SuggestionText(resp) ==
    IF ExtractThrows(resp) THEN <<>> ELSE Trim(RawText(resp))

\* ------------------------------------------------------------ the request

\* The body of a request: whether request.json() parses it, and of the parsed
\* payload what POST reads: location.name and weather.daily (an entry of daily
\* is an object, "day", or null).
Req(json, isNull, hasLocation, name, hasWeather, dailyIsArray, daily) ==
    [json |-> json, isNull |-> isNull, hasLocation |-> hasLocation, name |-> name,
     hasWeather |-> hasWeather, dailyIsArray |-> dailyIsArray, daily |-> daily]

Paris == Text(<<"P">>)

Requests ==
    { Req(FALSE, FALSE, FALSE, NoText, FALSE, FALSE, <<>>),     \* not JSON
      Req(TRUE, TRUE, FALSE, NoText, FALSE, FALSE, <<>>),       \* null
      Req(TRUE, FALSE, FALSE, NoText, TRUE, TRUE, <<"day">>),   \* no location
      Req(TRUE, FALSE, TRUE, NoText, TRUE, TRUE, <<"day">>),    \* location without name
      Req(TRUE, FALSE, TRUE, Text(<<>>), TRUE, TRUE, <<"day">>),\* name ''
      Req(TRUE, FALSE, TRUE, Paris, FALSE, FALSE, <<>>),        \* no weather
      Req(TRUE, FALSE, TRUE, Paris, TRUE, FALSE, <<>>),         \* daily not an array
      Req(TRUE, FALSE, TRUE, Paris, TRUE, TRUE, <<"day", "null">>),
      Req(TRUE, FALSE, TRUE, Paris, TRUE, TRUE, <<"day">>) }

NoRequest == Req(FALSE, FALSE, FALSE, NoText, FALSE, FALSE, <<>>)

\* payload?.location?.name is truthy
HasName(req) == ~req.isNull /\ req.hasLocation /\ ~Falsy(req.name)

\* Array.isArray(payload?.weather?.daily)
DailyIsArray(req) == ~req.isNull /\ req.hasWeather /\ req.dailyIsArray

\* Mutant: weather.daily is not checked.
ValidPayloadNameOnly(req) == HasName(req)

\* !(!payload?.location?.name || !Array.isArray(payload?.weather?.daily))
ValidPayload(req) == HasName(req) /\ DailyIsArray(req)

\* payload.weather.daily.slice(0, 7).map((day) => ... day.dt ...) throws a
\* TypeError on a null entry among the first 7.
PromptThrows(req) ==
    \E i \in 1..Min(7, Len(req.daily)) : req.daily[i] = "null"

\* ----------------------------------------------------------- the responses

NoBody == [error |-> "", details |-> "", suggestion |-> <<>>]
ErrorBody(msg) == [error |-> msg, details |-> "", suggestion |-> <<>>]

\* details: NODE_ENV === 'development' ? String(errFallback?.message ?? errFallback) : undefined
Details(env, err) == IF env = "development" THEN err.message ELSE ""

UnavailableBody(env, err) ==
    [error |-> "Suggestion service temporarily unavailable. Please try again in a few minutes.",
     details |-> Details(env, err), suggestion |-> <<>>]

\* The TypeError thrown while the prompt is built from a null daily entry.
PromptError ==
    Err("Cannot read properties of null (reading 'dt')",
        Undefined, Undefined, Undefined, Undefined, Undefined)

\* The outer catch: { error: error?.message || 'Failed to generate suggestion.' }
CatchBody(err) ==
    ErrorBody(IF err.message # "" THEN err.message ELSE "Failed to generate suggestion.")

\* Mutant: the emptiness test is made before trim().
ExtractStatusUntrimmed(resp) ==
    IF ExtractThrows(resp) \/ RawText(resp) = <<>> THEN 500 ELSE 200

\* if (!suggestionText) 500 else 200
ExtractStatus(resp) == IF SuggestionText(resp) = <<>> THEN 500 ELSE 200

ExtractBody(resp) ==
    IF SuggestionText(resp) = <<>>
    THEN ErrorBody("AI returned empty suggestion.")
    ELSE [error |-> "", details |-> "", suggestion |-> SuggestionText(resp)]

\* History: whether a status is one retryWithBackoff's comment and set call
\* transient: the number 429 or 503, or one of the three strings.
ListedTransient(status) ==
    status \in {Num(429), Num(503), Str("UNAVAILABLE"), Str("RATE_LIMIT_EXCEEDED"),
                Str("TOO_MANY_REQUESTS")}

\* ------------------------------------------------------------- the handler

\* The weather route before a request: nothing fetched, nothing answered.
WeatherIdle ==
    /\ provider = "open-meteo"
    /\ owmKeySet = TRUE
    /\ wpc = "idle"
    /\ qParam = NoText
    /\ calls = <<>>
    /\ geoRes = <<>>
    /\ wxRes = <<>>
    /\ wStatus = 0
    /\ wBody = <<>>

\* The page before a suggestion text is rendered.
PageIdle ==
    /\ ppc = "idle"
    /\ suggestionRaw = NoText
    /\ parsed = [order |-> <<>>, sections |-> <<>>]
    /\ query = <<>>
    /\ payload = [held |-> FALSE, city |-> <<>>]
    /\ loading = FALSE
    /\ error = ""
    /\ suggestionLoading = FALSE
    /\ suggestionError = ""
    /\ weatherRequests = {}
    /\ suggestionRequests = {}
    /\ searchLog = <<>>
    /\ lastStep = "none"

\* The suggestion endpoint before a request.
SuggestionInit ==
    /\ apiKeySet \in BOOLEAN
    /\ nodeEnv \in {"development", "production"}
    /\ pc = "idle"
    /\ request = NoRequest
    /\ attempt = 0
    /\ primaryCalls = 0
    /\ fallbackCalls = 0
    /\ waits = <<>>
    /\ lastErr = NoError
    /\ caught = <<>>
    /\ errPrimary = NoError
    /\ errFallback = NoError
    /\ response = NullResponse
    /\ httpStatus = 0
    /\ body = NoBody

Init == SuggestionInit /\ WeatherIdle /\ PageIdle

Answer(status, b) ==
    /\ httpStatus' = status
    /\ body' = b
    /\ pc' = "done"

\* POST up to its first await of the model: the API key check, request.json(),
\* the required fields, the prompt, and the first call of the primary model.
POST(req) ==
    /\ pc = "idle"
    /\ request' = req
    /\ IF ~apiKeySet
       THEN /\ Answer(500, ErrorBody("GEMINI_API_KEY is not set in environment variables."))
            /\ UNCHANGED primaryCalls
       ELSE IF ~req.json
       THEN /\ Answer(400, ErrorBody("Invalid JSON payload."))
            /\ UNCHANGED primaryCalls
       ELSE IF ~ValidPayload(req)
       THEN /\ Answer(400, ErrorBody("Payload missing required fields (location.name, weather.daily)."))
            /\ UNCHANGED primaryCalls
       ELSE IF PromptThrows(req)
       THEN /\ Answer(500, CatchBody(PromptError))
            /\ UNCHANGED primaryCalls
       ELSE /\ primaryCalls' = primaryCalls + 1
            /\ pc' = "awaitPrimary"
            /\ UNCHANGED <<httpStatus, body>>
    /\ UNCHANGED <<apiKeySet, nodeEnv, attempt, fallbackCalls, waits, lastErr, caught,
                   errPrimary, errFallback, response>>
    /\ UNCHANGED <<weatherVars, pageVars>>

\* The primary call resolves: retryWithBackoff returns it, POST extracts the
\* text and answers.
PrimaryResolves(resp) ==
    /\ pc = "awaitPrimary"
    /\ response' = resp
    /\ Answer(ExtractStatus(resp), ExtractBody(resp))
    /\ UNCHANGED <<apiKeySet, nodeEnv, request, attempt, primaryCalls, fallbackCalls,
                   waits, lastErr, caught, errPrimary, errFallback>>
    /\ UNCHANGED <<weatherVars, pageVars>>

\* The primary call rejects: the catch block of retryWithBackoff. It either
\* rethrows, and POST's catch calls the fallback model, or sleeps.
PrimaryRejects(err) ==
    /\ pc = "awaitPrimary"
    /\ attempt' = attempt + 1
    /\ lastErr' = err
    /\ caught' = Append(caught, ListedTransient(StatusOf(err)))
    /\ IF Rethrows(IsTransient(StatusOf(err)), attempt')
       THEN /\ errPrimary' = err
            /\ fallbackCalls' = fallbackCalls + 1
            /\ pc' = "awaitFallback"
            /\ UNCHANGED waits
       ELSE /\ \E jitter \in Jitters(JitterRange(Expo(attempt'))) :
                  waits' = Append(waits, Wait(Expo(attempt'), jitter))
            /\ pc' = "sleeping"
            /\ UNCHANGED <<errPrimary, fallbackCalls>>
    /\ UNCHANGED <<apiKeySet, nodeEnv, request, primaryCalls, errFallback, response,
                   httpStatus, body>>
    /\ UNCHANGED <<weatherVars, pageVars>>

\* sleep(wait) ends: the loop calls fn() again.
SleepEnds ==
    /\ pc = "sleeping"
    /\ primaryCalls' = primaryCalls + 1
    /\ pc' = "awaitPrimary"
    /\ UNCHANGED <<apiKeySet, nodeEnv, request, attempt, fallbackCalls, waits, lastErr,
                   caught, errPrimary, errFallback, response, httpStatus, body>>
    /\ UNCHANGED <<weatherVars, pageVars>>

\* The fallback call resolves: POST extracts the text and answers.
FallbackResolves(resp) ==
    /\ pc = "awaitFallback"
    /\ response' = resp
    /\ Answer(ExtractStatus(resp), ExtractBody(resp))
    /\ UNCHANGED <<apiKeySet, nodeEnv, request, attempt, primaryCalls, fallbackCalls,
                   waits, lastErr, caught, errPrimary, errFallback>>
    /\ UNCHANGED <<weatherVars, pageVars>>

\* Mutant: the fallback call is retried on a transient error.
FallbackRejectsRetrying(err) ==
    /\ pc = "awaitFallback"
    /\ errFallback' = err
    /\ IF IsTransient(StatusOf(err)) /\ fallbackCalls < attempts
       THEN /\ fallbackCalls' = fallbackCalls + 1
            /\ UNCHANGED <<pc, httpStatus, body>>
       ELSE /\ Answer(503, UnavailableBody(nodeEnv, err))
            /\ UNCHANGED fallbackCalls
    /\ UNCHANGED <<apiKeySet, nodeEnv, request, attempt, primaryCalls,
                   waits, lastErr, caught, errPrimary, response>>
    /\ UNCHANGED <<weatherVars, pageVars>>

\* The fallback call rejects: 503.
FallbackRejects(err) ==
    /\ pc = "awaitFallback"
    /\ errFallback' = err
    /\ Answer(503, UnavailableBody(nodeEnv, err))
    /\ UNCHANGED <<apiKeySet, nodeEnv, request, attempt, primaryCalls, fallbackCalls,
                   waits, lastErr, caught, errPrimary, response>>
    /\ UNCHANGED <<weatherVars, pageVars>>

Next ==
    \/ \E req \in Requests : POST(req)
    \/ \E resp \in Responses : PrimaryResolves(resp)
    \/ \E err \in Errors : PrimaryRejects(err)
    \/ SleepEnds
    \/ \E resp \in Responses : FallbackResolves(resp)
    \/ \E err \in Errors : FallbackRejects(err)

Spec == Init /\ [][Next]_vars

\* Every pending call completes and every sleep ends.
FairSpec == Spec /\ WF_vars(Next)

\* ================================================================= claims

AllListedTransient == \A i \in 1..Len(caught) : caught[i]

\* Trimmed text is blank.
Blank(s) == Trim(s) = <<>>

\* The primary model has failed between once and attempts - 1 times, each time
\* with a listed transient status.
OnlyTransientFailures ==
    /\ Len(caught) \in 1..(attempts - 1)
    /\ AllListedTransient

\* C1 as stated: when the primary model fails only with transient errors and
\* then succeeds within the 5 attempts, the fallback model is never called and
\* the endpoint answers 200 with the text of the successful response.
C1_AlwaysAnswers200 ==
    OnlyTransientFailures =>
        /\ fallbackCalls = 0
        /\ pc = "done" => (httpStatus = 200 /\ body.suggestion = Trim(RawText(response)))

\* C1 amended: when the primary model fails only with transient errors and then
\* succeeds within the 5 attempts, the fallback model is never called, and the
\* endpoint answers 200 with the trimmed text extracted from that response
\* when that text is not blank, and 500 with no suggestion when it is blank.
C1_TransientThenSuccess ==
    OnlyTransientFailures =>
        /\ fallbackCalls = 0
        /\ pc = "done" =>
              /\ primaryCalls = Len(caught) + 1
              /\ response \in Responses
              /\ IF ExtractThrows(response) \/ Blank(RawText(response))
                 THEN httpStatus = 500 /\ body.suggestion = <<>>
                 ELSE httpStatus = 200 /\ body.suggestion = Trim(RawText(response))

\* Two transient failures, then a success answered 200.
C1_Witness ==
    /\ pc = "done"
    /\ caught = <<TRUE, TRUE>>
    /\ primaryCalls = 3
    /\ fallbackCalls = 0
    /\ httpStatus = 200
    /\ body.suggestion = <<"a">>

\* C2: if the first primary call fails with a non-transient error, the primary
\* model is not called again, no backoff sleep takes place, and the fallback
\* model is called exactly once.
C2_PermanentErrorGoesToFallback ==
    (Len(caught) >= 1 /\ ~caught[1]) =>
        /\ Len(caught) = 1
        /\ primaryCalls = 1
        /\ waits = <<>>
        /\ fallbackCalls = 1

\* A first failure with status 500, no sleep, and the fallback's answer returned.
C2_Witness ==
    /\ pc = "done"
    /\ caught = <<FALSE>>
    /\ StatusOf(errPrimary) = Num(500)
    /\ waits = <<>>
    /\ fallbackCalls = 1
    /\ httpStatus = 200

\* C3: whenever the primary path raises, the fallback model is called exactly
\* once and never retried, even when its own error is transient; the endpoint
\* answers 503 if and only if the primary path failed and that one fallback
\* call failed too.
C3_FallbackOnceThen503 ==
    /\ fallbackCalls <= 1
    /\ (errPrimary # NoError) <=> (fallbackCalls = 1)
    /\ (errFallback # NoError) => (pc = "done" /\ errPrimary # NoError)
    /\ (httpStatus = 503) <=> (errPrimary # NoError /\ errFallback # NoError)

\* The fallback failed with a transient status (429) and was not called again.
C3_Witness ==
    /\ pc = "done"
    /\ httpStatus = 503
    /\ StatusOf(errFallback) = Num(429)
    /\ fallbackCalls = 1

\* C4: for one request the primary model is called at most 5 times; the calls
\* are strictly sequential (a call starts only when the handler starts or when
\* the previous call has failed and its backoff sleep has ended); and the retry
\* loop always ends, in a response or a rethrown error, once every call
\* completes.
C4_BoundedSequentialRetry ==
    /\ [](primaryCalls <= 5 /\ Len(caught) <= primaryCalls)
    /\ [][ (primaryCalls' # primaryCalls) =>
              /\ primaryCalls' = primaryCalls + 1
              /\ \/ pc = "idle" /\ primaryCalls = 0
                 \/ /\ pc = "sleeping"
                    /\ Len(caught) = primaryCalls
                    /\ Len(waits) = primaryCalls ]_vars
    /\ (pc \in {"awaitPrimary", "sleeping"}) ~> (pc \in {"awaitFallback", "done"})

\* The fifth call of the primary model is in flight after four sleeps.
C4_Witness ==
    /\ pc = "awaitPrimary"
    /\ primaryCalls = 5
    /\ Len(waits) = 4

\* C5: retryWithBackoff retries a failed call only when the error's status is
\* the number 429 or 503 or one of the strings UNAVAILABLE, RATE_LIMIT_EXCEEDED,
\* TOO_MANY_REQUESTS; for every other error it rethrows that same error after
\* the first such failure, without sleeping and without calling fn again.
C5_RetryOnlyListedStatuses ==
    [][ /\ (Len(caught') = Len(caught) + 1) =>
            /\ (pc' = "sleeping") => ListedTransient(StatusOf(lastErr'))
            /\ ~ListedTransient(StatusOf(lastErr')) =>
                  /\ errPrimary' = lastErr'
                  /\ pc' = "awaitFallback"
                  /\ waits' = waits
                  /\ primaryCalls' = primaryCalls
        /\ (errPrimary # NoError) =>
            /\ primaryCalls' = primaryCalls
            /\ waits' = waits
            /\ errPrimary' = errPrimary ]_vars

\* The string "429" is not a transient status: rethrown at once, no sleep.
C5_Witness ==
    /\ StatusOf(lastErr) = Str("429")
    /\ errPrimary = lastErr
    /\ primaryCalls = 1
    /\ waits = <<>>

\* C6: with base 600 ms and max 8000 ms, the sleep before retry k (k = 1..4)
\* equals max(100, d - j) where d = min(8000, 600 * 2^k) and j is an integer
\* with 0 <= j < min(1000, floor(d / 2)); every sleep is in 100..8000.
C6_SleepFormula ==
    \A k \in 1..Len(waits) :
        LET d == IF 600 * (2 ^ k) < 8000 THEN 600 * (2 ^ k) ELSE 8000
            b == IF d \div 2 < 1000 THEN d \div 2 ELSE 1000
            j == d - waits[k]
        IN  /\ k \in 1..4
            /\ \/ (j >= 0 /\ j < b /\ waits[k] >= 100)
               \/ (waits[k] = 100 /\ b >= 1 /\ d - (b - 1) <= 100)
            /\ waits[k] >= 100
            /\ waits[k] <= 8000

\* Four sleeps: the first without jitter, the last capped and with the largest jitter.
C6_Witness ==
    /\ Len(waits) = 4
    /\ waits[1] = 1200
    /\ waits[4] = 7001

RECURSIVE SumSeq(_)
SumSeq(q) == IF q = <<>> THEN 0 ELSE Head(q) + SumSeq(Tail(q))

\* C7: when the primary model fails transiently on all 5 attempts and the
\* fallback also fails, the endpoint answers 503 and the total time slept is at
\* most 4 x 8000 = 32000 ms; no sleep follows the last failed attempt or
\* precedes the fallback call.
C7_ExhaustedBackoffBounded ==
    /\ Len(caught) <= 5
    /\ (Len(caught) = 5 /\ AllListedTransient) =>
          /\ primaryCalls = 5
          /\ Len(waits) = 4
          /\ SumSeq(waits) <= 32000
          /\ fallbackCalls = 1
          /\ pc \in {"awaitFallback", "done"}
          /\ (errFallback # NoError) => httpStatus = 503

\* Five transient failures, four sleeps, the fallback failed: 503.
C7_Witness ==
    /\ Len(caught) = 5
    /\ AllListedTransient
    /\ Len(waits) = 4
    /\ errFallback # NoError
    /\ httpStatus = 503

\* A model response was received and the endpoint answered from it.
AnsweredFromResponse == pc = "done" /\ response \in Responses

\* C8: the endpoint never partially succeeds: every 200 response carries a
\* suggestion that is non-empty after trimming, and whenever the text extracted
\* from the model response is empty or whitespace-only the answer is 500.
C8_NoEmptySuccess ==
    /\ (httpStatus = 200) =>
          /\ AnsweredFromResponse
          /\ body.suggestion # <<>>
          /\ ~Blank(body.suggestion)
          /\ body.error = ""
    /\ (httpStatus # 200) => body.suggestion = <<>>
    /\ (AnsweredFromResponse /\ (ExtractThrows(response) \/ Blank(RawText(response)))) =>
          httpStatus = 500

\* A whitespace-only text field answered with 500.
C8_Witness ==
    /\ AnsweredFromResponse
    /\ response.text = Text(<<" ">>)
    /\ httpStatus = 500

\* What each of the three extraction strategies yields ('' when it has nothing).
TextStrategy(resp) == IF resp.text.defined THEN resp.text.str ELSE <<>>
OutputTextStrategy(resp) == IF resp.outputText.defined THEN resp.outputText.str ELSE <<>>
OutputsStrategy(resp) ==
    IF resp.outputs.isArray /\ ~OutputsThrow(resp) THEN OutputsText(resp) ELSE <<>>

FirstNonBlank(resp) ==
    IF ~Blank(TextStrategy(resp)) THEN TextStrategy(resp)
    ELSE IF ~Blank(OutputTextStrategy(resp)) THEN OutputTextStrategy(resp)
    ELSE OutputsStrategy(resp)

\* C9: extraction tries the text field, then outputText, then the joined
\* outputs; the endpoint answers 500 (empty generation) only when all three
\* yield empty or whitespace-only text, and otherwise answers 200 with the
\* first non-blank one (a blank text field does not hide outputText or outputs).
C9_EmptyOnlyWhenAllBlank ==
    AnsweredFromResponse =>
        IF /\ Blank(TextStrategy(response))
           /\ Blank(OutputTextStrategy(response))
           /\ Blank(OutputsStrategy(response))
        THEN httpStatus = 500
        ELSE httpStatus = 200 /\ body.suggestion = Trim(FirstNonBlank(response))

\* The request is one the claim calls malformed: not JSON, no location.name,
\* or weather.daily not an array.
Malformed(req) ==
    \/ ~req.json
    \/ req.isNull
    \/ ~req.hasLocation
    \/ ~req.name.defined
    \/ ~req.hasWeather
    \/ ~req.dailyIsArray

StatusesOfEndpoint == {200, 400, 500, 503}

\* C10 as stated: a request that is not valid JSON, lacks location.name or
\* whose weather.daily is not an array is answered 400 and no model is called
\* for it; the status is always one of 200, 400, 500, 503.
C10_MalformedIs400 ==
    /\ (pc = "done") => httpStatus \in StatusesOfEndpoint
    /\ (pc # "idle" /\ Malformed(request)) =>
          /\ httpStatus = 400
          /\ primaryCalls = 0
          /\ fallbackCalls = 0

\* C10 amended: such a request is answered 400 when GEMINI_API_KEY is set and
\* 500 when it is not set (the key is checked before the body is read); in
\* both cases no model is called for it; the status is always one of 200, 400,
\* 500, 503.
C10_MalformedRejected ==
    /\ (pc = "done") => httpStatus \in StatusesOfEndpoint
    /\ (pc # "done") => httpStatus = 0
    /\ (pc # "idle" /\ Malformed(request)) =>
          /\ pc = "done"
          /\ httpStatus = (IF apiKeySet THEN 400 ELSE 500)
          /\ primaryCalls = 0
          /\ fallbackCalls = 0

\* weather.daily is an object, not an array: 400 and no model call.
C10_Witness ==
    /\ pc = "done"
    /\ request.json
    /\ request.name = Paris
    /\ request.hasWeather
    /\ ~request.dailyIsArray
    /\ httpStatus = 400
    /\ primaryCalls = 0

\* The messages of the errors raised inside the endpoint or by the model service.
InternalMessages == {err.message : err \in Errors \cup {PromptError}}

\* C11: outside development (production), no failure response of the suggestion
\* endpoint contains the message of an internal or upstream error, neither in
\* details nor in error.
C11_NoLeakInProduction ==
    (nodeEnv # "development" /\ pc = "done" /\ httpStatus # 200) =>
        /\ body.details \notin InternalMessages
        /\ body.error \notin InternalMessages

\* ==================================================== the weather route
\* src/app/api/weather/route.ts holds two variants of GET: lines 12-127 for
\* Open-Meteo (one forecast call, daily granularity) and lines 140-247 for
\* OpenWeatherMap (current + forecast calls, 3-hour samples).

\* ------------------------------------------------------------------ bounds

\* Longest daily.time array of an Open-Meteo forecast.
MaxDays == 2

\* Longest list of an OpenWeatherMap forecast.
MaxSamples == 3

\* ------------------------------------------------------------ JSON numbers

\* A JSON number is an exact fraction n/d in lowest terms; a field can also be
\* null, absent (undefined) or, inside the handler, NaN.
RECURSIVE GCD(_, _)
GCD(a, b) == IF b = 0 THEN a ELSE GCD(b, a % b)

Abs(n) == IF n < 0 THEN -n ELSE n

Frac(n, d) ==
    LET g == GCD(Abs(n), d)
    IN  [k |-> "num", n |-> n \div g, d |-> d \div g]

JNum(n) == Frac(n, 1)
JNull == [k |-> "null", n |-> 0, d |-> 1]
JAbsent == [k |-> "absent", n |-> 0, d |-> 1]
JNaN == [k |-> "nan", n |-> 0, d |-> 1]

\* typeof v === 'number'
IsNumber(v) == v.k \in {"num", "nan"}

\* a ?? b on numbers
OrElse(a, b) == IF a.k \in {"null", "absent"} THEN b ELSE a

\* a + b: NaN when an operand is undefined or NaN, null counts as 0
Plus(a, b) ==
    IF a.k \in {"absent", "nan"} \/ b.k \in {"absent", "nan"} THEN JNaN
    ELSE Frac(a.n * b.d + b.n * a.d, a.d * b.d)

\* a / k for an integer k > 0
Over(a, k) ==
    IF a.k \in {"absent", "nan"} THEN JNaN ELSE Frac(a.n, a.d * k)

\* JSON.stringify of a number field: NaN is written null
Written(v) == IF v.k = "nan" THEN JNull ELSE v

RECURSIVE Total(_)
\* arr.reduce((a, b) => a + b, 0)
Total(arr) == IF arr = <<>> THEN JNum(0) ELSE Plus(Total(SubSeq(arr, 1, Len(arr) - 1)), arr[Len(arr)])

\* ------------------------------------------------------------ descriptions

\* Descriptions are texts over these letters; toLowerCase and toUpperCase act
\* on the three letters that have both cases here.
LowerOf(c) ==
    CASE c = "C" -> "c" [] c = "R" -> "r" [] c = "S" -> "s" [] OTHER -> c
UpperOf(c) ==
    CASE c = "c" -> "C" [] c = "r" -> "R" [] c = "s" -> "S" [] OTHER -> c

\* String.prototype.toLowerCase
ToLowerCase(str) == [i \in 1..Len(str) |-> LowerOf(str[i])]

\* Mutant: capitalize returns its argument unchanged.
capitalizeNothing(str) == str

\* function capitalize(s)
capitalize(str) ==
    IF str = <<>> THEN str ELSE <<UpperOf(str[1])>> \o Tail(str)

ClearSky == <<"C", "l", "e", "a", "r", " ", "s", "k", "y">>
SlightRain == <<"S", "l", "i", "g", "h", "t", " ", "r", "a", "i", "n">>
Unknown == <<"U", "n", "k", "n", "o", "w", "n">>
clear == <<"c", "l", "e", "a", "r">>
NotAvailable == <<"N", "/", "A">>

\* function codeToDescription(code): the table, of which codes 0 and 61 are used here
codeToDescription(code) ==
    IF code.k \in {"absent", "null"} THEN Unknown
    ELSE IF code = JNum(0) THEN ClearSky
    ELSE IF code = JNum(61) THEN SlightRain
    ELSE Unknown

\* ------------------------------------------------- the upstream responses

\* A fetch: rejected (arrived = FALSE), or a Response with ok, status, whether
\* res.json() parses the body, and the parsed body.
Res(ok, status, json, data) ==
    [arrived |-> TRUE, ok |-> ok, status |-> status, json |-> json, data |-> data]
Rejected == [arrived |-> FALSE, ok |-> FALSE, status |-> 0, json |-> FALSE, data |-> <<>>]

\* A geocoding candidate (Open-Meteo: latitude, longitude, admin1;
\* OpenWeatherMap: lat, lon, state).
Candidate == [name |-> Str("Paris"), country |-> Str("FR"), state |-> Str("IDF"),
              lat |-> JNum(48), lon |-> JNum(2)]

\* The geocoding body: whether it holds the candidate array, and the array.
Geo(hasResults, results) == [hasResults |-> hasResults, results |-> results]

GeoResponses ==
    { Res(TRUE, 200, TRUE, Geo(TRUE, <<Candidate>>)),
      Res(TRUE, 200, TRUE, Geo(TRUE, <<>>)),
      Res(TRUE, 200, TRUE, Geo(FALSE, <<>>)),
      Res(FALSE, 401, TRUE, Geo(FALSE, <<>>)),
      Res(FALSE, 502, FALSE, <<>>),
      Res(TRUE, 200, FALSE, <<>>),
      Rejected }

\* Open-Meteo current_weather (null when not present).
OMCurrent(present, temperature, windspeed, weathercode) ==
    [present |-> present, temperature |-> temperature, windspeed |-> windspeed,
     weathercode |-> weathercode]

\* Open-Meteo day i of the daily arrays: time[i] as a day number, and the
\* entries of the parallel arrays (absent when the array is missing or short).
OMDay(time, max, min, pop, code) ==
    [time |-> time, max |-> max, min |-> min, pop |-> pop, code |-> code]

\* The forecast body: current_weather, the daily arrays, and sunrise[0] and
\* sunset[0] as ISO local times counted in minutes.
OMForecast(current, hasDaily, days, sunrise, sunset) ==
    [current |-> current, hasDaily |-> hasDaily, days |-> days,
     sunrise |-> sunrise, sunset |-> sunset]

OMCurrents ==
    { OMCurrent(FALSE, JAbsent, JAbsent, JAbsent),
      OMCurrent(TRUE, JNum(15), JNum(3), JNum(0)),
      OMCurrent(TRUE, JNum(15), JAbsent, JAbsent) }

OMDays ==
    { OMDay(0, JNum(20), JNum(10), JNum(50), JNum(0)),
      OMDay(1, JNum(20), JAbsent, JNum(100), JNum(61)),
      OMDay(1, JNull, JNum(10), Frac(1, 2), JNum(4)),
      OMDay(0, JAbsent, JAbsent, JAbsent, JAbsent),
      OMDay(1, JNum(21), JNum(10), JNum(0), JNull),
      OMDay(0, JNum(15), JNum(15), JNum(25), JNum(0)) }

OMDayLists == UNION {[1..n -> OMDays] : n \in 0..MaxDays}

OMForecasts ==
    {OMForecast(c, TRUE, days, JNum(450), JNum(1170)) : c \in OMCurrents, days \in OMDayLists}
    \cup {OMForecast(c, TRUE, days, JAbsent, JAbsent) :
            c \in {OMCurrent(TRUE, JNum(15), JNum(3), JNum(0))}, days \in OMDayLists}
    \cup {OMForecast(OMCurrent(FALSE, JAbsent, JAbsent, JAbsent), FALSE, <<>>, JAbsent, JAbsent)}

OMResponses ==
    {Res(TRUE, 200, TRUE, f) : f \in OMForecasts}
    \cup {Res(FALSE, 400, TRUE, <<>>), Res(FALSE, 502, FALSE, <<>>),
          Res(TRUE, 200, FALSE, <<>>), Rejected}

\* OpenWeatherMap current weather body.
OWMCurrent(hasMain, temp, feels_like, humidity, hasWind, speed, weatherIsArray, description, hasSys, sunrise, sunset) ==
    [hasMain |-> hasMain, temp |-> temp, feels_like |-> feels_like,
     humidity |-> humidity, hasWind |-> hasWind, speed |-> speed,
     weatherIsArray |-> weatherIsArray, description |-> description,
     hasSys |-> hasSys, sunrise |-> sunrise, sunset |-> sunset]

rain == <<"r", "a", "i", "n">>
Rain == <<"R", "a", "i", "n">>
sun == <<"s", "u", "n">>
clearSky == <<"c", "l", "e", "a", "r", " ", "s", "k", "y">>

OWMCurrents ==
    { OWMCurrent(TRUE, JNum(15), JNum(14), JNum(80), TRUE, JNum(3), TRUE, clearSky,
                 TRUE, JNum(27000), JNum(70200)),
      OWMCurrent(TRUE, JNum(15), JAbsent, JAbsent, FALSE, JAbsent, FALSE, <<>>,
                 FALSE, JAbsent, JAbsent),
      OWMCurrent(FALSE, JAbsent, JAbsent, JAbsent, TRUE, JNum(3), TRUE, rain,
                 TRUE, JAbsent, JNum(70200)) }

\* One 3-hour sample of the forecast list: dt, main (and main.temp), pop and
\* weather[0].description ('' when there is none).
Sample(dt, hasMain, temp, pop, description) ==
    [dt |-> dt, hasMain |-> hasMain, temp |-> temp, pop |-> pop,
     description |-> description]

Samples ==
    { Sample(10800, TRUE, JNum(10), Frac(1, 2), rain),
      Sample(21600, TRUE, JNum(20), JAbsent, sun),
      Sample(32400, TRUE, JNum(21), JNum(1), Rain),
      Sample(86400, TRUE, JNum(10), JNum(50), sun),
      Sample(97200, TRUE, JAbsent, JNum(0), <<>>),
      Sample(43200, FALSE, JAbsent, JAbsent, rain),
      Sample(0, TRUE, JNum(15), Frac(1, 4), clearSky) }

\* One sample a day at 03:00 UTC, for the listed day numbers.
DaySamples(days) ==
    [i \in 1..Len(days) |->
        Sample(days[i] * 86400 + 10800, TRUE, JNum(10 + days[i]), JNum(0), sun)]

\* Lists that span more days than the route keeps.
LongLists ==
    { DaySamples(<<1, 2, 3, 4, 5, 6, 7, 8>>),
      DaySamples(<<8, 7, 6, 5, 4, 3, 2, 1>>),
      DaySamples(<<3, 1, 2, 9, 8, 3, 7, 6, 5, 4>>) }

SampleLists == UNION {[1..n -> Samples] : n \in 0..MaxSamples} \cup LongLists

\* The forecast body: list (when an array) and city.timezone.
OWMForecast(listIsArray, list, timezone) ==
    [listIsArray |-> listIsArray, list |-> list, timezone |-> timezone]

OWMForecasts ==
    {OWMForecast(TRUE, list, JNum(3600)) : list \in SampleLists}
    \cup {OWMForecast(TRUE, list, JAbsent) : list \in {l \in SampleLists : Len(l) <= 1}}
    \cup {OWMForecast(FALSE, <<>>, JAbsent)}

OWMCurrentResponses ==
    {Res(TRUE, 200, TRUE, c) : c \in OWMCurrents}
    \cup {Res(FALSE, 401, TRUE, <<>>), Res(FALSE, 502, FALSE, <<>>), Rejected}

OWMForecastResponses ==
    {Res(TRUE, 200, TRUE, f) : f \in OWMForecasts}
    \cup {Res(FALSE, 429, TRUE, <<>>), Res(TRUE, 200, FALSE, <<>>), Rejected}

\* ------------------------------------------------- the shaped payload

\* One entry of weather.daily; a field the route does not write is JAbsent.
Entry(dt, day, max, min, pop, description, code) ==
    [dt |-> dt, day |-> Written(day), max |-> max, min |-> min,
     pop |-> Written(pop), description |-> description, code |-> code]

\* weather.current; description and code are those of weather[0].
Current(temp, feels_like, humidity, wind_speed, description, code, sunrise, sunset, timezone_offset, weathercode) ==
    [temp |-> temp, feels_like |-> feels_like, humidity |-> humidity,
     wind_speed |-> wind_speed, description |-> description, code |-> code,
     sunrise |-> sunrise, sunset |-> sunset,
     timezone_offset |-> timezone_offset, weathercode |-> weathercode]

Payload(geo, current, daily) ==
    [location |-> [name |-> geo.name, country |-> geo.country,
                   state |-> geo.state, lat |-> geo.lat, lon |-> geo.lon],
     current |-> current, daily |-> daily]

\* The body of an answer: an { error } object, the upstream's JSON, or the
\* payload.
ErrorJson(message) == [kind |-> "error", error |-> message, data |-> <<>>]
UpstreamJson(data) == [kind |-> "upstream", error |-> "", data |-> data]
PayloadJson(shaped) == [kind |-> "payload", error |-> "", data |-> shaped]

SecondsPerDay == 86400

\* ---- Open-Meteo variant

\* new Date(iso).getTime() / 1000 of an ISO local time counted in minutes
IsoSeconds(iso) ==
    IF iso.k = "num" THEN JNum(iso.n * 60) ELSE JNull

OMShapedCurrent(f) ==
    LET currentWeather == f.current IN
    Current(OrElse(currentWeather.temperature, JNull),
            JAbsent,
            JAbsent,
            OrElse(currentWeather.windspeed, JNull),
            codeToDescription(currentWeather.weathercode),
            OrElse(currentWeather.weathercode, JNull),
            IF f.hasDaily THEN IsoSeconds(f.sunrise) ELSE JNull,
            IF f.hasDaily THEN IsoSeconds(f.sunset) ELSE JNull,
            JNum(0),
            OrElse(currentWeather.weathercode, JNull))

OMPop(pop) == IF IsNumber(pop) THEN Over(pop, 100) ELSE JNum(0)

\* the mutant of OMTempDay: the mean is not taken, min is ignored
OMTempDayMaxOnly(max, min) == OrElse(max, JNull)

OMTempDay(max, min) ==
    IF IsNumber(max) /\ IsNumber(min)
    THEN Over(Plus(max, min), 2)
    ELSE OrElse(max, OrElse(min, JNull))

OMEntry(d) ==
    Entry(d.time * SecondsPerDay,
          OMTempDay(d.max, d.min),
          IF IsNumber(d.max) THEN d.max ELSE JNull,
          IF IsNumber(d.min) THEN d.min ELSE JNull,
          OMPop(d.pop),
          codeToDescription(d.code),
          OrElse(d.code, JNull))

OMDaily(f) == [i \in 1..Len(f.days) |-> OMEntry(f.days[i])]

OMPayload(geo, f) == Payload(geo, OMShapedCurrent(f), OMDaily(f))

\* ---- OpenWeatherMap variant

MaxDailyEntries == 7

\* new Date(it.dt * 1000).toISOString().split('T')[0], as the day number
DateOf(dt) == dt \div SecondsPerDay

\* (it.weather?.[0]?.description || 'clear').toLowerCase()
DescOf(it) == ToLowerCase(IF it.description = <<>> THEN clear ELSE it.description)

\* descCounts[desc] = (descCounts[desc] || 0) + 1, keys in insertion order
Counted(descCounts, desc) ==
    IF \E i \in 1..Len(descCounts) : descCounts[i].desc = desc
    THEN [i \in 1..Len(descCounts) |->
            IF descCounts[i].desc = desc
            THEN [desc |-> desc, count |-> descCounts[i].count + 1]
            ELSE descCounts[i]]
    ELSE Append(descCounts, [desc |-> desc, count |-> 1])

\* one turn of the loop over the list
AddSample(dayMap, it) ==
    LET dateStr == DateOf(it.dt)
        fresh == [date |-> dateStr, temps |-> <<>>, pops |-> <<>>,
                  descCounts |-> <<>>, dtFirst |-> it.dt]
        known == \E i \in 1..Len(dayMap) : dayMap[i].date = dateStr
        map == IF known THEN dayMap ELSE Append(dayMap, fresh)
    IN  [i \in 1..Len(map) |->
            IF map[i].date = dateStr
            THEN [map[i] EXCEPT
                    !.temps = Append(@, it.temp),
                    !.pops = IF IsNumber(it.pop) THEN Append(@, it.pop) ELSE @,
                    !.descCounts = Counted(@, DescOf(it))]
            ELSE map[i]]

RECURSIVE DayMapOf(_)
DayMapOf(list) ==
    IF list = <<>> THEN <<>>
    ELSE AddSample(DayMapOf(SubSeq(list, 1, Len(list) - 1)), list[Len(list)])

\* it.main.temp of a sample without main
ForecastThrows(list) == \E i \in 1..Len(list) : ~list[i].hasMain

\* Array.prototype.sort is stable: an element goes after every element whose
\* key is not greater than its own. The elements are [key, item] pairs and
\* the order is ascending in key.
RECURSIVE Sorted(_)
Sorted(seq) ==
    IF seq = <<>> THEN <<>>
    ELSE LET front == Sorted(SubSeq(seq, 1, Len(seq) - 1))
             x == seq[Len(seq)]
             at == Cardinality({i \in 1..Len(front) : front[i].key <= x.key})
         IN  SubSeq(front, 1, at) \o <<x>> \o SubSeq(front, at + 1, Len(front))

\* the mutant of ByDate: the entries stay in insertion order
ByDateUnsorted(dayMap) == dayMap

\* .sort((a, b) => new Date(a[0]).getTime() - new Date(b[0]).getTime())
ByDate(dayMap) ==
    LET keyed == [i \in 1..Len(dayMap) |-> [key |-> dayMap[i].date, item |-> dayMap[i]]]
        sorted == Sorted(keyed)
    IN  [i \in 1..Len(sorted) |-> sorted[i].item]

\* the mutant of ByCount: ascending in count
ByCountAscending(descCounts) ==
    LET keyed == [i \in 1..Len(descCounts) |->
                    [key |-> descCounts[i].count, item |-> descCounts[i]]]
        sorted == Sorted(keyed)
    IN  [i \in 1..Len(sorted) |-> sorted[i].item]

\* .sort((a, b) => b[1] - a[1])
ByCount(descCounts) ==
    LET keyed == [i \in 1..Len(descCounts) |->
                    [key |-> 0 - descCounts[i].count, item |-> descCounts[i]]]
        sorted == Sorted(keyed)
    IN  [i \in 1..Len(sorted) |-> sorted[i].item]

mostCommonDesc(descCounts) ==
    IF descCounts = <<>> THEN clear
    ELSE LET d == ByCount(descCounts)[1].desc
         IN  IF d = <<>> THEN clear ELSE d

avgPop(pops) == IF pops = <<>> THEN JNum(0) ELSE Over(Total(pops), Len(pops))

avgTemp(temps) == Over(Total(temps), Max(1, Len(temps)))

OWMEntry(info) ==
    Entry(info.dtFirst, avgTemp(info.temps), JAbsent, JAbsent, avgPop(info.pops),
          capitalize(mostCommonDesc(info.descCounts)), JAbsent)

OWMDaily(list) ==
    LET sorted == ByDate(DayMapOf(list))
        kept == SubSeq(sorted, 1, Min(MaxDailyEntries, Len(sorted)))
    IN  [i \in 1..Len(kept) |-> OWMEntry(kept[i])]

OWMShapedCurrent(c, f) ==
    Current(IF c.hasMain THEN OrElse(c.temp, JNull) ELSE JNull,
            IF c.hasMain THEN OrElse(c.feels_like, JNull) ELSE JNull,
            IF c.hasMain THEN OrElse(c.humidity, JNull) ELSE JNull,
            IF c.hasWind THEN OrElse(c.speed, JNull) ELSE JNull,
            IF c.weatherIsArray THEN c.description ELSE NotAvailable,
            JAbsent,
            IF c.hasSys THEN OrElse(c.sunrise, JNull) ELSE JNull,
            IF c.hasSys THEN OrElse(c.sunset, JNull) ELSE JNull,
            OrElse(f.timezone, JNum(0)),
            JAbsent)

OWMPayload(geo, c, f) ==
    Payload(geo, OWMShapedCurrent(c, f),
            OWMDaily(IF f.listIsArray THEN f.list ELSE <<>>))

\* -------------------------------------------------- the weather handler

Providers == {"open-meteo", "openweathermap"}

\* searchParams.get('q'): null when there is no q parameter
Queries == {NoText, Text(<<>>), Text(<<" ", " ">>), Paris}

MissingQ == "Missing q parameter"
MissingKey == "Missing OWM_API_KEY on server"
LocationNotFound == "Location not found"
FetchFailed == "fetch failed"
NotJson == "Unexpected token < in JSON at position 0"
NoMain == "Cannot read properties of undefined (reading 'temp')"

WAnswer(status, b) ==
    /\ wpc' = "done"
    /\ wStatus' = status
    /\ wBody' = b

\* what await fetch(...) followed by await res.json() throws, if it throws
ReadThrows(r) == ~r.arrived \/ ~r.json
ReadError(r) == IF ~r.arrived THEN FetchFailed ELSE NotJson

\* GET up to the first await: the q check, the key check, the geocoding fetch.
GET(q) ==
    /\ wpc = "idle"
    /\ qParam' = q
    /\ IF Falsy(q)
       THEN /\ WAnswer(400, ErrorJson(MissingQ))
            /\ UNCHANGED calls
       ELSE IF provider = "openweathermap" /\ ~owmKeySet
       THEN /\ WAnswer(500, ErrorJson(MissingKey))
            /\ UNCHANGED calls
       ELSE /\ wpc' = "geocoding"
            /\ calls' = Append(calls, "geocode")
            /\ UNCHANGED <<wStatus, wBody>>
    /\ UNCHANGED <<provider, owmKeySet, geoRes, wxRes, suggestionVars, pageVars>>

\* the mutant of GeoArrives: a non-OK geocoding answer is fetched again
GeoArrivesRetrying(r) ==
    /\ wpc = "geocoding"
    /\ geoRes' = r
    /\ IF r.arrived /\ ~r.ok
       THEN /\ calls' = Append(calls, "geocode")
            /\ UNCHANGED <<wpc, wStatus, wBody>>
       ELSE /\ WAnswer(404, ErrorJson(LocationNotFound))
            /\ UNCHANGED calls
    /\ UNCHANGED <<provider, owmKeySet, qParam, wxRes, suggestionVars, pageVars>>

\* The geocoding fetch settles: the body is read, then ok is checked, then
\* the candidates; the weather fetches start.
GeoArrives(r) ==
    /\ wpc = "geocoding"
    /\ geoRes' = r
    /\ IF ReadThrows(r)
       THEN /\ WAnswer(500, ErrorJson(ReadError(r)))
            /\ UNCHANGED calls
       ELSE IF ~r.ok
       THEN /\ WAnswer(r.status, UpstreamJson(r.data))
            /\ UNCHANGED calls
       ELSE IF ~r.data.hasResults \/ r.data.results = <<>>
       THEN /\ WAnswer(404, ErrorJson(LocationNotFound))
            /\ UNCHANGED calls
       ELSE /\ wpc' = "fetching"
            /\ calls' = calls \o (IF provider = "open-meteo"
                                  THEN <<"forecast">>
                                  ELSE <<"current", "forecast">>)
            /\ UNCHANGED <<wStatus, wBody>>
    /\ UNCHANGED <<provider, owmKeySet, qParam, wxRes, suggestionVars, pageVars>>

\* Open-Meteo: the forecast fetch settles and the payload is shaped.
ForecastArrives(r) ==
    /\ wpc = "fetching"
    /\ provider = "open-meteo"
    /\ wxRes' = <<r>>
    /\ IF ReadThrows(r)
       THEN WAnswer(500, ErrorJson(ReadError(r)))
       ELSE IF ~r.ok
       THEN WAnswer(r.status, UpstreamJson(r.data))
       ELSE WAnswer(200, PayloadJson(OMPayload(geoRes.data.results[1], r.data)))
    /\ UNCHANGED <<provider, owmKeySet, qParam, calls, geoRes, suggestionVars, pageVars>>

\* OpenWeatherMap: Promise.all of the two fetches settles, both bodies are
\* read, then the two ok checks, then the daily summaries and the payload.
CurrentAndForecastArrive(currentRes, forecastRes) ==
    /\ wpc = "fetching"
    /\ provider = "openweathermap"
    /\ wxRes' = <<currentRes, forecastRes>>
    /\ IF ~currentRes.arrived \/ ~forecastRes.arrived
       THEN WAnswer(500, ErrorJson(FetchFailed))
       ELSE IF ~currentRes.json \/ ~forecastRes.json
       THEN WAnswer(500, ErrorJson(NotJson))
       ELSE IF ~currentRes.ok
       THEN WAnswer(currentRes.status, UpstreamJson(currentRes.data))
       ELSE IF ~forecastRes.ok
       THEN WAnswer(forecastRes.status, UpstreamJson(forecastRes.data))
       ELSE IF forecastRes.data.listIsArray /\ ForecastThrows(forecastRes.data.list)
       THEN WAnswer(500, ErrorJson(NoMain))
       ELSE WAnswer(200, PayloadJson(OWMPayload(geoRes.data.results[1],
                                                currentRes.data, forecastRes.data)))
    /\ UNCHANGED <<provider, owmKeySet, qParam, calls, geoRes, suggestionVars, pageVars>>

\* The weather route alone, in either variant; the suggestion endpoint and
\* the page stay idle.
WeatherInit ==
    /\ SuggestionInit
    /\ apiKeySet
    /\ nodeEnv = "production"
    /\ PageIdle
    /\ provider \in Providers
    /\ owmKeySet \in BOOLEAN
    /\ provider = "open-meteo" => owmKeySet
    /\ wpc = "idle"
    /\ qParam = NoText
    /\ calls = <<>>
    /\ geoRes = <<>>
    /\ wxRes = <<>>
    /\ wStatus = 0
    /\ wBody = <<>>

WeatherNext ==
    \/ \E q \in Queries : GET(q)
    \/ \E r \in GeoResponses : GeoArrives(r)
    \/ \E r \in OMResponses : ForecastArrives(r)
    \/ \E currentRes \in OWMCurrentResponses, forecastRes \in OWMForecastResponses :
          CurrentAndForecastArrive(currentRes, forecastRes)

WeatherSpec == WeatherInit /\ [][WeatherNext]_vars

\* =============================================== claims on the weather route

WeatherAnswered == wpc = "done"
WeatherOK == wpc = "done" /\ wStatus = 200

\* The payload of a 200 answer.
Emitted == wBody.data

\* The precipitation values the upstream sent for the answered lookup.
UpstreamPops ==
    IF provider = "open-meteo"
    THEN {wxRes[1].data.days[i].pop : i \in 1..Len(wxRes[1].data.days)}
    ELSE IF wxRes[2].data.listIsArray
    THEN {wxRes[2].data.list[i].pop : i \in 1..Len(wxRes[2].data.list)}
    ELSE {}

\* a percentage in 0..100 or a fraction in 0..1, or no value
PercentOrFraction(v) == v.k = "num" => 0 <= v.n /\ v.n <= 100 * v.d

InUnitInterval(v) == v.k = "num" /\ 0 <= v.n /\ v.n <= v.d

\* C12: in either route, when every upstream precipitation value is a
\* percentage in 0..100 or a fraction in 0..1, every emitted daily entry has
\* its pop in [0, 1].
C12_PopInUnitInterval ==
    (WeatherOK /\ \A v \in UpstreamPops : PercentOrFraction(v))
        => \A i \in 1..Len(Emitted.daily) : InUnitInterval(Emitted.daily[i].pop)

\* The samples the upstream sent, and those of the date of daily entry i.
UpstreamList == IF wxRes[2].data.listIsArray THEN wxRes[2].data.list ELSE <<>>

RECURSIVE Select(_, _)
Select(seq, keep) ==
    IF seq = <<>> THEN <<>>
    ELSE LET front == Select(SubSeq(seq, 1, Len(seq) - 1), keep)
         IN  IF Len(seq) \in keep THEN Append(front, seq[Len(seq)]) ELSE front

BucketSamples(i) ==
    Select(UpstreamList,
           {j \in 1..Len(UpstreamList) :
                UpstreamList[j].dt \div SecondsPerDay = Emitted.daily[i].dt \div SecondsPerDay})

Occurrences(strs, str) == Cardinality({j \in 1..Len(strs) : strs[j] = str})

\* The most frequent string of a non-empty list, the one met first on a tie.
MostFrequent(strs) ==
    LET first == CHOOSE j \in 1..Len(strs) :
                    /\ \A k \in 1..Len(strs) :
                          Occurrences(strs, strs[k]) <= Occurrences(strs, strs[j])
                    /\ \A k \in 1..(j - 1) :
                          Occurrences(strs, strs[k]) < Occurrences(strs, strs[j])
    IN  strs[first]

RawDescriptions(i) ==
    [j \in 1..Len(BucketSamples(i)) |-> BucketSamples(i)[j].description]

\* lower-cased, a sample without a description counting as 'clear'
FoldedDescriptions(i) ==
    [j \in 1..Len(BucketSamples(i)) |->
        LET d == BucketSamples(i)[j].description
        IN  ToLowerCase(IF d = <<>> THEN clear ELSE d)]

SubDailyOK == WeatherOK /\ provider = "openweathermap"

C14_BlankQueryRejected ==
    (wpc # "idle" /\ Blank(qParam.str))
        => wpc = "done" /\ wStatus = 400 /\ calls = <<>>

GeocodingSettled == wpc \in {"fetching", "done"} /\ calls # <<>>
WeatherSettled == wpc = "done" /\ wxRes # <<>>

\* a call that answered with a non-OK status
NotOK(r) == r.arrived /\ ~r.ok

\* C15: when geocoding succeeds with zero candidates the lookup answers 404
\* 'Location not found' and makes no current-conditions or forecast call;
\* when a geocoding or weather call answers with a non-OK status the lookup
\* answers with that status and body.
C15_NotFoundAndUpstreamErrors ==
    /\ (GeocodingSettled /\ geoRes.arrived /\ geoRes.ok /\ geoRes.json
            /\ geoRes.data.hasResults /\ geoRes.data.results = <<>>)
        => /\ wpc = "done"
           /\ wStatus = 404
           /\ wBody = ErrorJson(LocationNotFound)
           /\ calls = <<"geocode">>
    /\ (GeocodingSettled /\ NotOK(geoRes))
        => /\ wpc = "done"
           /\ wStatus = geoRes.status
           /\ wBody = UpstreamJson(geoRes.data)
    /\ (WeatherSettled /\ \E i \in 1..Len(wxRes) : NotOK(wxRes[i]))
        => \E i \in 1..Len(wxRes) :
              /\ NotOK(wxRes[i])
              /\ wStatus = wxRes[i].status
              /\ wBody = UpstreamJson(wxRes[i].data)

\* every weather call of the lookup answered OK with a JSON body
AllWeatherOK ==
    WeatherSettled /\ \A i \in 1..Len(wxRes) : wxRes[i].arrived /\ wxRes[i].ok /\ wxRes[i].json

Omitted(v) == v.k = "absent"

\* C16: when an OK provider response omits an optional numeric field, the
\* lookup still answers 200 and the corresponding output field is null: a
\* day's max, min and precipitation, the current wind and sunrise in the
\* daily route; a sample's temperature or main object, the current humidity,
\* wind and sunrise in the sub-daily route.
C16_OmittedFieldsAreNull ==
    AllWeatherOK =>
        /\ wStatus = 200
        /\ provider = "open-meteo" =>
              LET f == wxRes[1].data IN
              /\ \A i \in 1..Len(f.days) :
                    /\ Omitted(f.days[i].max) => Emitted.daily[i].max = JNull
                    /\ Omitted(f.days[i].min) => Emitted.daily[i].min = JNull
                    /\ Omitted(f.days[i].pop) => Emitted.daily[i].pop = JNull
              /\ Omitted(f.current.windspeed) => Emitted.current.wind_speed = JNull
              /\ Omitted(f.sunrise) => Emitted.current.sunrise = JNull
        /\ provider = "openweathermap" =>
              LET c == wxRes[1].data IN
              /\ \A i \in 1..Len(Emitted.daily) :
                    (\E j \in 1..Len(BucketSamples(i)) :
                        ~BucketSamples(i)[j].hasMain \/ Omitted(BucketSamples(i)[j].temp))
                        => Emitted.daily[i].day = JNull
              /\ Omitted(c.humidity) => Emitted.current.humidity = JNull
              /\ Omitted(c.speed) => Emitted.current.wind_speed = JNull
              /\ Omitted(c.sunrise) => Emitted.current.sunrise = JNull

\* A forecast, apart from any provider: the place's current conditions and
\* its days, each with a date (day number), a temperature, a rain
\* probability as a fraction and a sky that both providers can name.
Forecast(temp, wind, sky, sunrise, sunset, days) ==
    [temp |-> temp, wind |-> wind, sky |-> sky, sunrise |-> sunrise,
     sunset |-> sunset, days |-> days]

Forecasts ==
    { Forecast(15, 3, "clear sky", 450, 1170, <<>>),
      Forecast(15, 3, "clear sky", 450, 1170,
               << [date |-> 0, temp |-> 15, rain |-> Frac(1, 4), sky |-> "clear sky"] >>) }

\* The daily-granularity provider's response for a forecast: one record a
\* day, rain as a percentage, the sky as a WMO code, times as local ISO.
AsDaily(F) ==
    OMForecast(OMCurrent(TRUE, JNum(F.temp), JNum(F.wind), JNum(0)),
               TRUE,
               [i \in 1..Len(F.days) |->
                    OMDay(F.days[i].date, JNum(F.days[i].temp), JNum(F.days[i].temp),
                          Frac(F.days[i].rain.n * 100, F.days[i].rain.d), JNum(0))],
               JNum(F.sunrise), JNum(F.sunset))

\* The sub-daily provider's responses for it: current conditions, and one
\* sample a day at 00:00 UTC, rain as a fraction, the sky in words, times in
\* epoch seconds.
AsSubDaily(F) ==
    << OWMCurrent(TRUE, JNum(F.temp), JNum(14), JNum(80), TRUE, JNum(F.wind), TRUE,
                  clearSky, TRUE, JNum(F.sunrise * 60), JNum(F.sunset * 60)),
       OWMForecast(TRUE,
                   [i \in 1..Len(F.days) |->
                        Sample(F.days[i].date * SecondsPerDay, TRUE,
                               JNum(F.days[i].temp), F.days[i].rain, clearSky)],
                   JAbsent) >>

\* C17: when the two providers' responses describe the same forecast, the
\* two routes emit the same payload: the payload emitted for one provider's
\* response is the one the other route makes of the other provider's.
C17_SameForecastSamePayload ==
    WeatherOK =>
        \A F \in Forecasts :
            LET geo == geoRes.data.results[1]
                daily == OMPayload(geo, AsDaily(F))
                subDaily == OWMPayload(geo, AsSubDaily(F)[1], AsSubDaily(F)[2])
            IN  /\ (provider = "open-meteo" /\ wxRes[1].data = AsDaily(F))
                    => Emitted = subDaily
                /\ (provider = "openweathermap"
                        /\ <<wxRes[1].data, wxRes[2].data>> = AsSubDaily(F))
                    => Emitted = daily

\* Both encodings of a forecast with a day are answered.
C17_Reached ==
    /\ WeatherOK
    /\ \E F \in Forecasts :
          /\ F.days # <<>>
          /\ \/ provider = "open-meteo" /\ wxRes[1].data = AsDaily(F)
             \/ provider = "openweathermap"
                    /\ <<wxRes[1].data, wxRes[2].data>> = AsSubDaily(F)

\* ==================================================================== page

MaxChars == 4
MaxTokens == 4

\* U+200B, U+2013 and U+2014, each one character of a text
ZWSP == "\\u200B"
EnDash == "\\u2013"
EmDash == "\\u2014"

MinOf(S) == CHOOSE x \in S : \A y \in S : x <= y

\* the rest of s from index i on
From(s, i) == SubSeq(s, i, Len(s))

\* the first index from j on that holds no whitespace, Len(s) + 1 if none
SkipSpace(s, j) ==
    LET rest == {m \in j..Len(s) : s[m] \notin Whitespace}
    IN  IF rest = {} THEN Len(s) + 1 ELSE MinOf(rest)

\* the first index from j on that holds no newline, Len(s) + 1 if none
SkipNewlines(s, j) ==
    LET rest == {m \in j..Len(s) : s[m] # "\n"}
    IN  IF rest = {} THEN Len(s) + 1 ELSE MinOf(rest)

\* ---- sanitizeSuggestion

\* .replace(/\r\n/g, '\n')
RECURSIVE ReplaceCRLF(_)
ReplaceCRLF(s) ==
    IF s = <<>> THEN <<>>
    ELSE IF Len(s) >= 2 /\ s[1] = "\r" /\ s[2] = "\n"
    THEN <<"\n">> \o ReplaceCRLF(From(s, 3))
    ELSE <<s[1]>> \o ReplaceCRLF(Tail(s))

\* .replace(/\*\s*\*/g, '**')
RECURSIVE JoinAsterisks(_)
JoinAsterisks(s) ==
    IF s = <<>> THEN <<>>
    ELSE LET j == SkipSpace(s, 2)
         IN  IF s[1] = "*" /\ j <= Len(s) /\ s[j] = "*"
             THEN <<"*", "*">> \o JoinAsterisks(From(s, j + 1))
             ELSE <<s[1]>> \o JoinAsterisks(Tail(s))

\* .replace(/\n{3,}/g, '\n\n')
RECURSIVE CollapseNewlines(_)
CollapseNewlines(s) ==
    IF s = <<>> THEN <<>>
    ELSE IF s[1] = "\n"
    THEN LET j == SkipNewlines(s, 1)
         IN  (IF j - 1 >= 3 THEN <<"\n", "\n">> ELSE SubSeq(s, 1, j - 1))
                \o CollapseNewlines(From(s, j))
    ELSE <<s[1]>> \o CollapseNewlines(Tail(s))

\* .split('\n')
RECURSIVE SplitLines(_)
SplitLines(s) ==
    LET at == {m \in 1..Len(s) : s[m] = "\n"}
    IN  IF at = {} THEN <<s>>
        ELSE <<SubSeq(s, 1, MinOf(at) - 1)>> \o SplitLines(From(s, MinOf(at) + 1))

\* .split('\n').map(l => l.trim()).join('\n')
TrimLines(s) ==
    LET lines == SplitLines(s)
    IN  JoinLines([i \in 1..Len(lines) |-> Trim(lines[i])])

\* .replace(/\u200B/g, '')
RemoveZWSP(s) == SelectSeq(s, LAMBDA c : c # ZWSP)

\* the mutant of sanitizeSuggestion: null is not returned early, String(null)
\* goes through
sanitizeSuggestionStringified(raw) ==
    LET text == IF raw.defined THEN raw.str ELSE <<"n", "u", "l", "l">>
    IN  Text(Trim(RemoveZWSP(TrimLines(CollapseNewlines(JoinAsterisks(ReplaceCRLF(text)))))))

sanitizeSuggestion(raw) ==
    IF ~raw.defined THEN NoText
    ELSE Text(Trim(RemoveZWSP(TrimLines(CollapseNewlines(JoinAsterisks(ReplaceCRLF(raw.str)))))))

\* ---- extractSections

Newlines == {"\n", "\r"}
Separators == {":", "-", EnDash, EmDash}

\* \*\*(.+?)\*\* matched at i: the index of the closing pair, 0 if there is no
\* match. The label is the shortest run of one or more characters other than
\* newlines that is followed by **.
LabelClose(s, i) ==
    IF ~(i + 1 <= Len(s) /\ s[i] = "*" /\ s[i + 1] = "*") THEN 0
    ELSE LET closes == {k \in (i + 3)..(Len(s) - 1) :
                            /\ s[k] = "*"
                            /\ s[k + 1] = "*"
                            /\ \A m \in (i + 2)..(k - 1) : s[m] \notin Newlines}
         IN  IF closes = {} THEN 0 ELSE MinOf(closes)

LabelAt(s, i) == LabelClose(s, i) # 0

\* the mutant of MatchAt: the content runs to the end of the text
MatchAtGreedy(s, i) ==
    LET k == LabelClose(s, i)
        p1 == SkipSpace(s, k + 2)
        p2 == IF p1 <= Len(s) /\ s[p1] \in Separators THEN p1 + 1 ELSE p1
        p3 == SkipSpace(s, p2)
    IN  [label |-> SubSeq(s, i + 2, k - 1),
         content |-> SubSeq(s, p3, Len(s)),
         lastIndex |-> Len(s) + 1]

\* One match of labelRegex at i (where a label is): the label, the content
\* after \s*[:\-–—]?\s* up to the next label or the end, and lastIndex.
MatchAt(s, i) ==
    LET k == LabelClose(s, i)
        p1 == SkipSpace(s, k + 2)
        p2 == IF p1 <= Len(s) /\ s[p1] \in Separators THEN p1 + 1 ELSE p1
        p3 == SkipSpace(s, p2)
        nexts == {e \in p3..Len(s) : LabelAt(s, e)}
        e == IF nexts = {} THEN Len(s) + 1 ELSE MinOf(nexts)
    IN  [label |-> SubSeq(s, i + 2, k - 1),
         content |-> SubSeq(s, p3, e - 1),
         lastIndex |-> e]

\* The matches of the exec loop from lastIndex on, in order.
RECURSIVE Matches(_, _)
Matches(s, lastIndex) ==
    LET starts == {i \in lastIndex..Len(s) : LabelAt(s, i)}
    IN  IF starts = {} THEN <<>>
        ELSE LET m == MatchAt(s, MinOf(starts))
             IN  <<m>> \o Matches(s, m.lastIndex)

NoSections == [order |-> <<>>, sections |-> <<>>]

\* sections[label], <<>> when there is none or it is ''
Held(sections, label) ==
    IF \E i \in 1..Len(sections) : sections[i].label = label
    THEN (CHOOSE x \in {sections[i] : i \in 1..Len(sections)} : x.label = label).content
    ELSE <<>>

\* sections[label] = content
Assigned(sections, label, content) ==
    IF \E i \in 1..Len(sections) : sections[i].label = label
    THEN [i \in 1..Len(sections) |->
            IF sections[i].label = label
            THEN [label |-> label, content |-> content]
            ELSE sections[i]]
    ELSE Append(sections, [label |-> label, content |-> content])

\* the body of the while loop
AddMatch(acc, match) ==
    LET label == Trim(match.label)
        content == Trim(match.content)
    IN  IF Held(acc.sections, label) = <<>>
        THEN [order |-> Append(acc.order, label),
              sections |-> Assigned(acc.sections, label, content)]
        ELSE [order |-> acc.order,
              sections |-> Assigned(acc.sections, label,
                                    Held(acc.sections, label) \o <<"\n", "\n">> \o content)]

RECURSIVE Labelled(_)
Labelled(matches) ==
    IF matches = <<>> THEN NoSections
    ELSE AddMatch(Labelled(SubSeq(matches, 1, Len(matches) - 1)), matches[Len(matches)])

\* .split(/\n{2,}/)
RECURSIVE SplitBlocks(_)
SplitBlocks(s) ==
    LET at == {m \in 1..(Len(s) - 1) : s[m] = "\n" /\ s[m + 1] = "\n"}
    IN  IF at = {} THEN <<s>>
        ELSE <<SubSeq(s, 1, MinOf(at) - 1)>>
                \o SplitBlocks(From(s, SkipNewlines(s, MinOf(at))))

\* .map(b => b.trim()).filter(Boolean)
Blocks(s) ==
    LET parts == SplitBlocks(s)
    IN  SelectSeq([i \in 1..Len(parts) |-> Trim(parts[i])], LAMBDA b : b # <<>>)

RECURSIVE Decimal(_)
Decimal(n) ==
    LET digit == <<"0", "1", "2", "3", "4", "5", "6", "7", "8", "9">>[(n % 10) + 1]
    IN  IF n < 10 THEN <<digit>> ELSE Append(Decimal(n \div 10), digit)

Recommendations == <<"R", "e", "c", "o", "m", "m", "e", "n", "d", "a", "t", "i", "o", "n", "s">>
Overview == <<"O", "v", "e", "r", "v", "i", "e", "w">>
SectionWord == <<"S", "e", "c", "t", "i", "o", "n", " ">>

\* the mutant of BlockKey: every block is numbered
BlockKeyNumbered(i) == SectionWord \o Decimal(i + 1)

\* i === 0 ? 'Overview' : `Section ${i + 1}`
BlockKey(i) == IF i = 0 THEN Overview ELSE SectionWord \o Decimal(i + 1)

\* the mutant of Fallback: a text without labels gives no section
FallbackNothing(s) == NoSections

Fallback(s) ==
    LET blocks == Blocks(s)
    IN  IF Len(blocks) = 1
        THEN [order |-> <<Recommendations>>,
              sections |-> <<[label |-> Recommendations, content |-> blocks[1]]>>]
        ELSE [order |-> [i \in 1..Len(blocks) |-> BlockKey(i - 1)],
              sections |-> [i \in 1..Len(blocks) |->
                                [label |-> BlockKey(i - 1), content |-> blocks[i]]]]

extractSections(raw) ==
    IF Falsy(raw) THEN NoSections
    ELSE LET labelled == Labelled(Matches(raw.str, 1))
         IN  IF labelled.order = <<>> THEN Fallback(raw.str) ELSE labelled

\* ---- the suggestion texts

Chars == {"a", " ", "\n", "\r", "*", ":", ZWSP}

CharTexts == UNION {[1..n -> Chars] : n \in 0..MaxChars}

Tokens ==
    { <<"*", "*", "B", ":", "*", "*", " ", "f">>,
      <<"*", "*", "P", ":", "*", "*", " ", "j">>,
      <<"*", "*", "B", "*", "*">>,
      <<"-", " ", "g">>,
      <<"\n", "\n", "g">>,
      <<"\n">> }

RECURSIVE Flat(_)
Flat(parts) == IF parts = <<>> THEN <<>> ELSE Head(parts) \o Flat(Tail(parts))

TokenTexts == {Flat(parts) : parts \in UNION {[1..n -> Tokens] : n \in 0..MaxTokens}}

\* Longer texts with whitespace or U+200B inside the lines.
SpacedTexts ==
    { <<"a", "\n", " ", "\n", "\n", "a">>,
      <<"a", "\n", ZWSP, " ", "a">>,
      <<"a", " ", ZWSP, "\n", "a">>,
      <<"a", "\n", "\n", ZWSP, "\n", "a">>,
      <<"a", " ", "\n", "\n", "\n", "\n", " ", "a">> }

\* what the suggestion endpoint may answer as data.suggestion
RawTexts == CharTexts \cup TokenTexts \cup SpacedTexts

\* ---- the page

\* fetchSuggestion, after the response: raw is sanitized and stored.
SuggestionArrives(raw) ==
    /\ ppc \in {"idle", "blank"}
    /\ suggestionRaw' = sanitizeSuggestion(Text(raw))
    /\ ppc' = "stored"
    /\ UNCHANGED <<parsed, searchVars, suggestionVars, weatherVars>>

\* The component renders: the stored text is sanitized again and parsed.
Render ==
    /\ ppc \in {"idle", "stored"}
    /\ parsed' = extractSections(sanitizeSuggestion(suggestionRaw))
    /\ ppc' = IF ppc = "idle" THEN "blank" ELSE "shown"
    /\ UNCHANGED <<suggestionRaw, searchVars, suggestionVars, weatherVars>>

\* The page alone; the two endpoints stay idle.
PageInit ==
    /\ SuggestionInit
    /\ apiKeySet
    /\ nodeEnv = "production"
    /\ WeatherIdle
    /\ PageIdle

PageNext ==
    \/ \E raw \in RawTexts : SuggestionArrives(raw)
    \/ Render

PageSpec == PageInit /\ [][PageNext]_vars

\* ========================================================= claims on the page

\* The text the parser is given, and the sections it returned, in order.
ParserInput == sanitizeSuggestion(suggestionRaw)
Rendered == ppc \in {"blank", "shown"}
Sections ==
    [i \in 1..Len(parsed.order) |->
        [label |-> parsed.order[i], content |-> Held(parsed.sections, parsed.order[i])]]

\* **Label:** content, a blank line, **Label:** content
TwoLabelledParts(l1, c1, l2, c2) ==
    <<"*", "*">> \o l1 \o <<":", "*", "*", " ">> \o c1 \o <<"\n", "\n">>
        \o <<"*", "*">> \o l2 \o <<":", "*", "*", " ">> \o c2

PartLabels == {<<"B">>, <<"P">>}
PartContents == {<<"f">>, <<"j">>}

\* C18: parsing a text of two parts of the form **Label:** content, set
\* apart by a blank line, yields exactly two sections in text order, whose
\* labels are the label words without the colon and whose contents are the
\* trimmed texts after the labels.
C18_LabelsWithoutColon ==
    Rendered =>
        \A l1 \in PartLabels, l2 \in PartLabels, c1 \in PartContents, c2 \in PartContents :
            (l1 # l2 /\ ParserInput = Text(TwoLabelledParts(l1, c1, l2, c2)))
                => Sections = << [label |-> l1, content |-> c1],
                                 [label |-> l2, content |-> c2] >>

\* no **...** label anywhere in the text
NoBoldLabel(s) == \A i \in 1..Len(s) : ~LabelAt(s, i)

Unlabelled == Rendered /\ ParserInput.defined /\ NoBoldLabel(ParserInput.str)

\* C19: a text without a bold label is split on blank lines; one block gives
\* the single section 'Recommendations' holding the whole input; k > 1
\* blocks give k sections 'Overview', 'Section 2', ..., 'Section k' in block
\* order, each holding its block.
C19_UnlabelledBlocks ==
    Unlabelled =>
        LET blocks == Blocks(ParserInput.str) IN
        /\ Len(blocks) = 1 =>
              Sections = << [label |-> Recommendations, content |-> ParserInput.str] >>
        /\ Len(blocks) > 1 =>
              /\ Len(Sections) = Len(blocks)
              /\ Sections[1].label = Overview
              /\ \A i \in 2..Len(blocks) : Sections[i].label = SectionWord \o Decimal(i)
              /\ \A i \in 1..Len(blocks) : Sections[i].content = blocks[i]

\* Three blocks are shown as 'Overview', 'Section 2', 'Section 3'.
C19_Witness ==
    /\ Unlabelled
    /\ Len(Blocks(ParserInput.str)) = 3
    /\ Len(Sections) = 3
    /\ Sections[3].label = SectionWord \o <<"3">>

\* One block is shown as 'Recommendations'.
C19_OneBlock ==
    /\ Unlabelled
    /\ Len(Blocks(ParserInput.str)) = 1
    /\ Len(ParserInput.str) > 1
    /\ parsed.order = <<Recommendations>>

\* Every label of the order has exactly one entry among the sections.
WellFormed ==
    /\ \A i \in 1..Len(parsed.order) :
          \E j \in 1..Len(parsed.sections) : parsed.sections[j].label = parsed.order[i]
    /\ \A i, j \in 1..Len(parsed.sections) :
          parsed.sections[i].label = parsed.sections[j].label => i = j

\* C20: the parser is total: whatever text is held, rendering returns an
\* ordered list of sections, and for the empty string and for null the list
\* is empty.
C20_ParserTotal ==
    Rendered =>
        /\ parsed = extractSections(ParserInput)
        /\ WellFormed
        /\ (~suggestionRaw.defined \/ suggestionRaw.str = <<>>) => Sections = <<>>

\* Rendered with no text held (null), nothing is shown.
C20_Witness == ppc = "blank" /\ ~suggestionRaw.defined /\ Sections = <<>>

\* Rendered with the empty text held, nothing is shown.
C20_EmptyText == ppc = "shown" /\ suggestionRaw = Text(<<>>) /\ Sections = <<>>

\* The labelled matches of the text the parser is given, trimmed.
LabelledMatches ==
    LET ms == Matches(ParserInput.str, 1)
    IN  [i \in 1..Len(ms) |-> [label |-> Trim(ms[i].label), content |-> Trim(ms[i].content)]]

\* the contents joined with a blank line between them
RECURSIVE JoinedWithBlankLine(_)
JoinedWithBlankLine(parts) ==
    IF parts = <<>> THEN <<>>
    ELSE IF Len(parts) = 1 THEN parts[1]
    ELSE parts[1] \o <<"\n", "\n">> \o JoinedWithBlankLine(Tail(parts))

\* the labels in the order of their first occurrence, each once
FirstOccurrences(ms) ==
    LET firsts == {i \in 1..Len(ms) : \A j \in 1..(i - 1) : ms[j].label # ms[i].label}
    IN  [i \in 1..Len(Select(ms, firsts)) |-> Select(ms, firsts)[i].label]

\* the contents of the matches of a label, in order
ContentsOf(ms, label) ==
    LET own == Select(ms, {i \in 1..Len(ms) : ms[i].label = label})
    IN  [i \in 1..Len(own) |-> own[i].content]

HasLabels == Rendered /\ ParserInput.defined /\ LabelledMatches # <<>>

\* C21: the ordered label list holds each label once, in the order of first
\* occurrence, and the section of a repeated label holds all its contents
\* joined by blank lines, also when the first content was empty.
C21_LabelsOnceContentsAppended ==
    HasLabels =>
        /\ parsed.order = FirstOccurrences(LabelledMatches)
        /\ \A i \in 1..Len(parsed.order) :
              Held(parsed.sections, parsed.order[i])
                  = JoinedWithBlankLine(ContentsOf(LabelledMatches, parsed.order[i]))

\* The calendar dates (UTC day numbers) of the upstream samples.
UpstreamDates == {UpstreamList[j].dt \div SecondsPerDay : j \in 1..Len(UpstreamList)}

EmittedDate(i) == Emitted.daily[i].dt \div SecondsPerDay

\* C22: in the sub-daily route the daily list has one entry for each distinct
\* date of the samples, strictly ascending by date and by dt, and at most 7
\* entries, those of the 7 earliest dates.
C22_OneEntryPerDateEarliestSeven ==
    SubDailyOK =>
        LET n == Len(Emitted.daily) IN
        /\ n = Min(7, Cardinality(UpstreamDates))
        /\ \A i \in 1..n : EmittedDate(i) \in UpstreamDates
        /\ \A i, j \in 1..n :
              i < j => EmittedDate(i) < EmittedDate(j)
                        /\ Emitted.daily[i].dt < Emitted.daily[j].dt
        /\ \A d \in UpstreamDates :
              (\E i \in 1..n : EmittedDate(i) = d)
                  \/ \A i \in 1..n : EmittedDate(i) < d

\* Samples of nine dates, out of order, give the seven earliest.
C22_Witness ==
    /\ SubDailyOK
    /\ Cardinality(UpstreamDates) = 9
    /\ Len(Emitted.daily) = 7
    /\ EmittedDate(1) = 1
    /\ EmittedDate(7) = 7

DailyOK == WeatherOK /\ provider = "open-meteo"

UpstreamDays == wxRes[1].data.days

\* v is half the sum of a and b
IsMean(v, a, b) ==
    v.k = "num" /\ 2 * v.n * a.d * b.d = (a.n * b.d + b.n * a.d) * v.d

\* C23: in the daily route, temp.day of day i is (max + min) / 2 when both
\* are numbers, otherwise the one that is present, otherwise null; temp.max
\* and temp.min are the provider's number or null.
C23_TempDayIsMeanOrPresent ==
    DailyOK =>
        /\ Len(Emitted.daily) = Len(UpstreamDays)
        /\ \A i \in 1..Len(UpstreamDays) :
              LET max == UpstreamDays[i].max
                  min == UpstreamDays[i].min
                  out == Emitted.daily[i]
              IN  /\ IF max.k = "num" /\ min.k = "num" THEN IsMean(out.day, max, min)
                     ELSE IF max.k = "num" THEN out.day = max
                     ELSE IF min.k = "num" THEN out.day = min
                     ELSE out.day = JNull
                  /\ out.max = IF max.k = "num" THEN max ELSE JNull
                  /\ out.min = IF min.k = "num" THEN min ELSE JNull

\* One day with both (20 and 10 give 15), one with max alone.
C23_Witness ==
    /\ DailyOK
    /\ Len(UpstreamDays) = 2
    /\ UpstreamDays[1].max = JNum(20) /\ UpstreamDays[1].min = JNum(10)
    /\ Emitted.daily[1].day = JNum(15)
    /\ UpstreamDays[2].max = JNum(20) /\ UpstreamDays[2].min = JAbsent
    /\ Emitted.daily[2].day = JNum(20)

\* The outbound calls of a full lookup, in order.
AllCalls ==
    IF provider = "open-meteo"
    THEN <<"geocode", "forecast">>
    ELSE <<"geocode", "current", "forecast">>

\* C24: the geocoding call completes before any weather call starts, and each
\* endpoint is called at most once in a lookup: two calls in all for the
\* single-call provider, three for the provider with separate current and
\* forecast calls.
C24_GeocodeFirstEachCallOnce ==
    /\ Len(calls) <= Len(AllCalls)
    /\ calls = SubSeq(AllCalls, 1, Len(calls))
    /\ Len(calls) \in {0, 1, Len(AllCalls)}
    /\ Len(calls) > 1 =>
          /\ wpc \in {"fetching", "done"}
          /\ geoRes.arrived /\ geoRes.ok /\ geoRes.data.results # <<>>
    /\ wpc = "geocoding" => calls = <<"geocode">>
    /\ WeatherOK => calls = AllCalls

\* A full lookup of the provider with separate current and forecast calls.
C24_Witness ==
    /\ WeatherOK
    /\ provider = "openweathermap"
    /\ calls = <<"geocode", "current", "forecast">>

Stored == ppc = "stored" /\ suggestionRaw.defined

HasTripleNewline(s) ==
    \E i \in 1..(Len(s) - 2) : s[i] = "\n" /\ s[i + 1] = "\n" /\ s[i + 2] = "\n"

\* a line that begins or ends with whitespace
HasUntrimmedLine(s) ==
    \E i \in 1..Len(s) :
        /\ s[i] \in Whitespace \ {"\n"}
        /\ \/ i = 1 \/ s[i - 1] = "\n"
           \/ i = Len(s) \/ s[i + 1] = "\n"

\* C25: the text sanitizeSuggestion returns holds no run of three or more
\* newlines and no line with leading or trailing whitespace.
C25_NoTripleNewlineNoUntrimmedLine ==
    Stored => ~HasTripleNewline(suggestionRaw.str) /\ ~HasUntrimmedLine(suggestionRaw.str)

\* C30: sanitizeSuggestion is idempotent: applied to the text it returned,
\* as the page does when it renders the stored text, it returns that text.
C30_SanitizeIdempotent ==
    Stored => sanitizeSuggestion(suggestionRaw) = suggestionRaw

\* a complete **...** marker pair somewhere in the text
HasBoldLabel(s) == \E i \in 1..Len(s) : LabelAt(s, i)

\* seq a is seq b with some elements left out
RECURSIVE IsSubsequence(_, _)
IsSubsequence(a, b) ==
    IF a = <<>> THEN TRUE
    ELSE IF b = <<>> THEN FALSE
    ELSE IF Head(a) = Head(b) THEN IsSubsequence(Tail(a), Tail(b))
    ELSE IsSubsequence(a, Tail(b))

\* the text begins with ** label ** at index i
BeginsLabel(s, i, label) ==
    /\ i + Len(label) + 3 <= Len(s)
    /\ SubSeq(s, i, i + Len(label) + 3) = <<"*", "*">> \o label \o <<"*", "*">>

\* C26: the sections come in the order in which their labels appear in the
\* text, no section's content holds a complete **...** label, and the
\* content of a label ends where the next label begins or at the end of the
\* text.
C26_ContentStopsAtNextLabel ==
    HasLabels =>
        LET s == ParserInput.str
            ms == Matches(s, 1)
        IN  /\ IsSubsequence(parsed.order, [i \in 1..Len(ms) |-> Trim(ms[i].label)])
            /\ \A i \in 1..Len(ms) : \E j \in 1..Len(parsed.order) :
                  parsed.order[j] = Trim(ms[i].label)
            /\ \A i \in 1..Len(Sections) : ~HasBoldLabel(Sections[i].content)
            /\ \A i \in 1..Len(ms) :
                  /\ ~HasBoldLabel(ms[i].content)
                  /\ IF i = Len(ms)
                     THEN ms[i].lastIndex = Len(s) + 1
                     ELSE BeginsLabel(s, ms[i].lastIndex, ms[i + 1].label)

\* Two labels with contents: the first content stops before the second label.
C26_Witness ==
    /\ HasLabels
    /\ Len(parsed.order) = 2
    /\ parsed.order[1] # parsed.order[2]
    /\ Sections[1].content # <<>>
    /\ Sections[2].content # <<>>

NonEmptyText == Rendered /\ ParserInput.defined /\ ParserInput.str # <<>>

\* C27: for every suggestion text that is not empty after normalization the
\* parser returns at least one section.
C27_NonEmptyTextHasSection ==
    NonEmptyText => Len(Sections) >= 1

\* A text that ignores the format is shown as one section.
C27_Witness ==
    /\ NonEmptyText
    /\ NoBoldLabel(ParserInput.str)
    /\ Len(Sections) = 1
    /\ Sections[1].content = ParserInput.str

\* ============================================================== the searches

MaxSearches == 2

NullPayload == [held |-> FALSE, city |-> <<>>]
PayloadFor(city) == [held |-> TRUE, city |-> city]

\* what the user may type in the search input
TypedQueries == {<<>>, <<" ">>, <<"P">>, <<" ", "T">>}

\* the text the suggestion endpoint generates from a payload
SuggestionFor(city) == <<"F", "o", "r", " ">> \o city

PleaseEnter == "Please enter a destination"
WeatherFailed == "Failed to fetch weather"
SuggestionFailed == "Failed to fetch trip suggestion."

\* onChange of the search input
Type(text) ==
    /\ query # text
    /\ query' = text
    /\ UNCHANGED <<payload, loading, error, suggestionLoading, suggestionError,
                   weatherRequests, suggestionRequests, searchLog, lastStep>>
    /\ UNCHANGED <<ppc, suggestionRaw, parsed, suggestionVars, weatherVars>>

\* handleSearch up to its first await, from the Enter key or the button (the
\* button is disabled while loading, the key is not).
handleSearch ==
    /\ IF Trim(query) = <<>>
       THEN /\ error' = PleaseEnter
            /\ lastStep' = "blank"
            /\ UNCHANGED <<payload, loading, suggestionRaw, suggestionError,
                           weatherRequests, searchLog>>
       ELSE /\ Len(searchLog) < MaxSearches
            /\ error' = ""
            /\ loading' = TRUE
            /\ payload' = NullPayload
            /\ suggestionRaw' = NoText
            /\ suggestionError' = ""
            /\ weatherRequests' = weatherRequests \cup {Len(searchLog) + 1}
            /\ searchLog' = Append(searchLog,
                                   [city |-> Trim(query), outcome |-> "pending", posts |-> <<>>])
            /\ lastStep' = "started"
    /\ UNCHANGED <<query, suggestionLoading, suggestionRequests>>
    /\ UNCHANGED <<ppc, parsed, suggestionVars, weatherVars>>

\* the mutant of WeatherResponds: the suggestion is asked for whatever the
\* weather response
WeatherRespondsAlwaysSuggests(id, outcome) ==
    /\ id \in weatherRequests
    /\ weatherRequests' = weatherRequests \ {id}
    /\ payload' = IF outcome = "ok" THEN PayloadFor(searchLog[id].city) ELSE payload
    /\ error' = IF outcome = "ok" THEN error ELSE WeatherFailed
    /\ suggestionLoading' = TRUE
    /\ suggestionError' = ""
    /\ suggestionRaw' = NoText
    /\ suggestionRequests' = suggestionRequests \cup {id}
    /\ searchLog' = [searchLog EXCEPT ![id].outcome = outcome,
                                      ![id].posts = Append(@, searchLog[id].city)]
    /\ loading' = FALSE
    /\ lastStep' = outcome
    /\ UNCHANGED query
    /\ UNCHANGED <<ppc, parsed, suggestionVars, weatherVars>>

\* handleSearch after the weather response of search id: an OK response is
\* stored and fetchSuggestion runs up to its fetch; otherwise the error is
\* shown; finally loading ends.
WeatherResponds(id, outcome) ==
    /\ id \in weatherRequests
    /\ weatherRequests' = weatherRequests \ {id}
    /\ IF outcome = "ok"
       THEN /\ payload' = PayloadFor(searchLog[id].city)
            /\ suggestionLoading' = TRUE
            /\ suggestionError' = ""
            /\ suggestionRaw' = NoText
            /\ suggestionRequests' = suggestionRequests \cup {id}
            /\ searchLog' = [searchLog EXCEPT ![id].outcome = outcome,
                                              ![id].posts = Append(@, searchLog[id].city)]
            /\ UNCHANGED error
       ELSE /\ error' = WeatherFailed
            /\ searchLog' = [searchLog EXCEPT ![id].outcome = outcome]
            /\ UNCHANGED <<payload, suggestionLoading, suggestionError, suggestionRaw,
                           suggestionRequests>>
    /\ loading' = FALSE
    /\ lastStep' = outcome
    /\ UNCHANGED query
    /\ UNCHANGED <<ppc, parsed, suggestionVars, weatherVars>>

\* fetchSuggestion after the response to the request of search id: the text is
\* sanitized and stored, or the error is shown; finally suggestionLoading ends.
SuggestionResponds(id, ok) ==
    /\ id \in suggestionRequests
    /\ suggestionRequests' = suggestionRequests \ {id}
    /\ IF ok
       THEN /\ suggestionRaw' = sanitizeSuggestion(Text(SuggestionFor(searchLog[id].city)))
            /\ UNCHANGED suggestionError
       ELSE /\ suggestionError' = SuggestionFailed
            /\ UNCHANGED suggestionRaw
    /\ suggestionLoading' = FALSE
    /\ lastStep' = IF ok THEN "suggested" ELSE "unsuggested"
    /\ UNCHANGED <<query, payload, loading, error, weatherRequests, searchLog>>
    /\ UNCHANGED <<ppc, parsed, suggestionVars, weatherVars>>

WeatherOutcomes == {"ok", "nonok", "failed"}

\* The searches of the page alone; rendering and the endpoints stay idle.
SearchNext ==
    \/ \E text \in TypedQueries : Type(text)
    \/ handleSearch
    \/ \E id \in 1..MaxSearches, outcome \in WeatherOutcomes : WeatherResponds(id, outcome)
    \/ \E id \in 1..MaxSearches, ok \in BOOLEAN : SuggestionResponds(id, ok)

SearchSpec == PageInit /\ [][SearchNext]_vars

\* ====================================================== claims on the searches

\* A suggestion request was posted for a search exactly when its weather
\* lookup answered OK, once, with that lookup's payload; requests in flight
\* belong to such searches.
PostedOncePerSuccess ==
    /\ \A id \in 1..Len(searchLog) :
          searchLog[id].posts
              = IF searchLog[id].outcome = "ok" THEN <<searchLog[id].city>> ELSE <<>>
    /\ \A id \in suggestionRequests : searchLog[id].outcome = "ok"

Unsuccessful == {"blank", "nonok", "failed"}

\* C28 as stated: a suggestion request is sent only after a successful weather
\* lookup, once per successful lookup and with its payload; after a blank
\* query, a failed lookup or a non-OK weather response no suggestion request
\* was sent for it and the payload is null.
C28_SuggestionOnlyAfterSuccessPayloadNull ==
    /\ PostedOncePerSuccess
    /\ lastStep \in Unsuccessful => ~payload.held

\* C28 amended: a suggestion request is sent only after a successful weather
\* lookup, once per successful lookup and with its payload; a blank query, a
\* failed lookup or a non-OK weather response sends no suggestion request and
\* leaves the payload as it was (a blank query also leaves the requests in
\* flight and the suggestion text as they were).
C28_SuggestionOnlyAfterSuccess ==
    [][ /\ PostedOncePerSuccess'
        /\ lastStep' \in Unsuccessful =>
              /\ payload' = payload
              /\ suggestionRequests' = suggestionRequests
              /\ \A id \in 1..Len(searchLog) : searchLog'[id].posts = searchLog[id].posts
        /\ lastStep' = "blank" =>
              UNCHANGED <<suggestionRaw, weatherRequests, searchLog>> ]_vars

\* One lookup succeeded and posted its payload once, one failed and posted
\* nothing, and a blank query came last with the payload still held.
C28_Witness ==
    /\ lastStep = "blank"
    /\ payload.held
    /\ \E i, j \in 1..Len(searchLog) :
          /\ searchLog[i].outcome = "ok" /\ searchLog[i].posts = <<searchLog[i].city>>
          /\ searchLog[j].outcome \in {"nonok", "failed"} /\ searchLog[j].posts = <<>>

\* A suggestion request in flight that was sent with the payload now held.
InFlightForPayload ==
    \E id \in suggestionRequests :
        payload.held /\ payload = PayloadFor(searchLog[id].city)

\* C29: under any interleaving of searches, a suggestion text held together
\* with a payload was generated from that payload, and suggestionLoading is
\* true while a suggestion request for the held payload is in flight.
C29_SuggestionBelongsToPayload ==
    /\ (suggestionRaw.defined /\ payload.held) =>
          suggestionRaw = sanitizeSuggestion(Text(SuggestionFor(payload.city)))
    /\ InFlightForPayload => suggestionLoading

====
